---- MODULE Spec2Model ----
(***************************************************************************)
(* Termina Launcher (sshconnect-gui.py): the host and terminal-profile     *)
(* records, the JSON config store (~/.sshconnect), the command builders    *)
(* and the persistent git identity, as state machines.                     *)
(*                                                                         *)
(* Texts are TLA+ strings and are inspected character by character         *)
(* (strip, int(), "in", shlex.quote).  The config file is its parsed JSON  *)
(* tree when its text is well-formed JSON and a marker when it is not:     *)
(*   [bad |-> ...]   text json.load rejects (garbage, truncated, empty)    *)
(*   [arr |-> s]     a JSON array of elements                              *)
(*   [obj |-> f]     a JSON object, f a function on its keys               *)
(*   [num |-> n]     a JSON number     [null |-> TRUE]  JSON null          *)
(* Strings, integers and the links sequences are the leaves.               *)
(***************************************************************************)
EXTENDS Integers, Sequences, FiniteSets, TLC

VARIABLES
    pc,                 \* "off": no process; "running": the window is up
    hosts,              \* SSHConnectWindow.hosts
    terminal_profiles,  \* SSHConnectWindow.terminal_profiles
    file,               \* ~/.sshconnect: [exists, content, mode]
    unsaved,            \* a mutation was made whose save did not succeed
    written,            \* the lists of the last save that completed, while
                        \* the file is as that save left it
    faults,             \* I/O failures and crashes so far (bounded)
    last,               \* what the last handler did: [op, out, msgs, ...]
    cmd,                \* the call or handler that ran last and its inputs
    repo                \* a project directory and its git repository

vars == <<pc, hosts, terminal_profiles, file, unsaved, written, faults, last,
          cmd, repo>>
appVars == <<pc, hosts, terminal_profiles, file, unsaved, written, faults, last>>

(***************************************************************************)
(* Bounds of the model.                                                    *)
(***************************************************************************)
MaxHosts == 2
MaxProfiles == 2
MaxFaults == 1
MaxCopies == 1

(***************************************************************************)
(* Python text primitives.                                                 *)
(***************************************************************************)
IsSpace(c) == c \in {" ", "\t", "\n"}

RECURSIVE LStrip(_)
LStrip(s) == IF s = "" THEN ""
             ELSE IF IsSpace(Head(s)) THEN LStrip(Tail(s)) ELSE s

RECURSIVE RStrip(_)
RStrip(s) == IF s = "" THEN ""
             ELSE IF IsSpace(SubSeq(s, Len(s), Len(s)))
                  THEN RStrip(SubSeq(s, 1, Len(s) - 1)) ELSE s

\* str.strip()
Strip(s) == RStrip(LStrip(s))

\* sub in s
Contains(s, sub) ==
    \E i \in 1..(Len(s) - Len(sub) + 1) : SubSeq(s, i, i + Len(sub) - 1) = sub

Digits == <<"0", "1", "2", "3", "4", "5", "6", "7", "8", "9">>

IsDigit(c) == \E d \in 1..10 : Digits[d] = c

DigitVal(c) == (CHOOSE d \in 1..10 : Digits[d] = c) - 1

RECURSIVE DigitsVal(_, _)
DigitsVal(s, acc) == IF s = "" THEN acc
                     ELSE DigitsVal(Tail(s), acc * 10 + DigitVal(Head(s)))

\* int(text): surrounding whitespace and one sign are accepted, then decimal
\* digits only; anything else is ValueError ([ok |-> FALSE]).
ParseInt(text) ==
    LET s == Strip(text)
        signed == s # "" /\ Head(s) \in {"+", "-"}
        body == IF signed THEN Tail(s) ELSE s
    IN IF body # "" /\ \A i \in 1..Len(body) : IsDigit(SubSeq(body, i, i))
       THEN [ok |-> TRUE,
             val |-> IF signed /\ Head(s) = "-" THEN 0 - DigitsVal(body, 0)
                     ELSE DigitsVal(body, 0)]
       ELSE [ok |-> FALSE, val |-> 0]

\* dict.get(key, default)
Get(d, key, default) == IF key \in DOMAIN d THEN d[key] ELSE default

IsDict(e) == DOMAIN e = {"obj"}
IsList(e) == DOMAIN e = {"arr"}

(***************************************************************************)
(* SSHHost and TerminalProfile.                                            *)
(***************************************************************************)
SSHHost(name, ip, username, port, certificate, links) ==
    [name |-> name, ip |-> ip, username |-> username, port |-> port,
     certificate |-> certificate, links |-> links]

TerminalProfile(name, git_username, git_email, ssh_key_path, working_dir) ==
    [name |-> name, git_username |-> git_username, git_email |-> git_email,
     ssh_key_path |-> ssh_key_path, working_dir |-> working_dir]

\* SSHHost.to_dict, as the JSON object json.dump writes for it
HostToDict(h) ==
    [obj |-> [name |-> h.name, ip |-> h.ip, username |-> h.username,
              port |-> h.port, certificate |-> h.certificate,
              links |-> h.links]]

\* from_dict reading the address under a key to_dict never writes
HostFromDictWrongKey(e) ==
    SSHHost(Get(e.obj, "name", ""), Get(e.obj, "host", ""),
            Get(e.obj, "username", ""), Get(e.obj, "port", 22),
            Get(e.obj, "certificate", ""), Get(e.obj, "links", <<>>))

\* SSHHost.from_dict on a dict
HostFromDict(e) ==
    SSHHost(Get(e.obj, "name", ""), Get(e.obj, "ip", ""),
            Get(e.obj, "username", ""), Get(e.obj, "port", 22),
            Get(e.obj, "certificate", ""), Get(e.obj, "links", <<>>))

\* TerminalProfile.to_dict
ProfileToDict(p) ==
    [obj |-> [name |-> p.name, git_username |-> p.git_username,
              git_email |-> p.git_email, ssh_key_path |-> p.ssh_key_path,
              working_dir |-> p.working_dir]]

\* TerminalProfile.from_dict on a dict
ProfileFromDict(e) ==
    TerminalProfile(Get(e.obj, "name", ""), Get(e.obj, "git_username", ""),
                    Get(e.obj, "git_email", ""), Get(e.obj, "ssh_key_path", ""),
                    Get(e.obj, "working_dir", ""))

Map(F(_), s) == [i \in 1..Len(s) |-> F(s[i])]

\* str(n) of an integer
RECURSIVE Str(_)
Str(n) == IF n < 0 THEN "-" \o Str(0 - n)
          ELSE IF n < 10 THEN Digits[n + 1]
          ELSE Str(n \div 10) \o Digits[(n % 10) + 1]

\* get_ssh_args passing the port flag for every port
get_ssh_args_always_port(self) ==
    LET args0 == <<"ssh">>
        args1 == IF self.certificate # ""
                 THEN args0 \o <<"-i", self.certificate>> ELSE args0
        args2 == args1 \o <<"-p", Str(self.port)>>
        target == IF self.username # ""
                  THEN self.username \o "@" \o self.ip ELSE self.ip
    IN Append(args2, target)

\* SSHHost.get_ssh_args
get_ssh_args(self) ==
    LET args0 == <<"ssh">>
        args1 == IF self.certificate # ""
                 THEN args0 \o <<"-i", self.certificate>> ELSE args0
        args2 == IF self.port # 22
                 THEN args1 \o <<"-p", Str(self.port)>> ELSE args1
        target == IF self.username # ""
                  THEN self.username \o "@" \o self.ip ELSE self.ip
    IN Append(args2, target)

\* the characters shlex.quote leaves unquoted: [A-Za-z0-9_@%+=:,./-]
SafeChars ==
    {"a", "b", "c", "d", "e", "f", "g", "h", "i", "j", "k", "l", "m", "n", "o",
     "p", "q", "r", "s", "t", "u", "v", "w", "x", "y", "z",
     "A", "B", "C", "D", "E", "F", "G", "H", "I", "J", "K", "L", "M", "N", "O",
     "P", "Q", "R", "S", "T", "U", "V", "W", "X", "Y", "Z",
     "0", "1", "2", "3", "4", "5", "6", "7", "8", "9",
     "_", "@", "%", "+", "=", ":", ",", ".", "/", "-"}

\* s.replace("'", "'\"'\"'")
RECURSIVE EscapeQuotes(_)
EscapeQuotes(s) ==
    IF s = "" THEN ""
    ELSE (IF Head(s) = "'" THEN "'\"'\"'" ELSE Head(s)) \o EscapeQuotes(Tail(s))

\* shlex.quote
ShlexQuote(s) ==
    IF s = "" THEN "''"
    ELSE IF \A i \in 1..Len(s) : SubSeq(s, i, i) \in SafeChars THEN s
    ELSE "'" \o EscapeQuotes(s) \o "'"

\* get_environment setting GIT_SSH_COMMAND whatever the key path
get_environment_always_ssh(self) ==
    [GIT_AUTHOR_NAME |-> self.git_username,
     GIT_COMMITTER_NAME |-> self.git_username,
     GIT_AUTHOR_EMAIL |-> self.git_email,
     GIT_COMMITTER_EMAIL |-> self.git_email,
     GIT_SSH_COMMAND |-> "ssh -i " \o ShlexQuote(self.ssh_key_path)
                            \o " -o IdentitiesOnly=yes"]

\* TerminalProfile.get_environment: the dict as a function on its keys
get_environment(self) ==
    LET env == [GIT_AUTHOR_NAME |-> self.git_username,
                GIT_COMMITTER_NAME |-> self.git_username,
                GIT_AUTHOR_EMAIL |-> self.git_email,
                GIT_COMMITTER_EMAIL |-> self.git_email]
    IN IF self.ssh_key_path # ""
       THEN env @@ ("GIT_SSH_COMMAND" :>
                     ("ssh -i " \o ShlexQuote(self.ssh_key_path)
                      \o " -o IdentitiesOnly=yes"))
       ELSE env

(***************************************************************************)
(* The config file and its permissions.                                    *)
(***************************************************************************)
\* stat.S_IRUSR | stat.S_IWUSR
OwnerOnly == {"rusr", "wusr"}
\* what open(..., 'w') gives a file it creates: 0666 less the umask
CreateModes == {{"rusr", "wusr"}, {"rusr", "wusr", "rgrp", "roth"}}

NoFile == [exists |-> FALSE, content |-> [bad |-> "absent"], mode |-> {}]

ErrorDialog(title) == [via |-> "dialog", title |-> title]
IdleError(title) == [via |-> "idle", title |-> title]

\* a document that leaves the profiles out
ConfigDocumentHostsOnly(hs, ps) ==
    [obj |-> [version |-> 2,
              ssh_hosts |-> [arr |-> Map(HostToDict, hs)],
              terminal_profiles |-> [arr |-> <<>>]]]

\* the document save_config builds
ConfigDocument(hs, ps) ==
    [obj |-> [version |-> 2,
              ssh_hosts |-> [arr |-> Map(HostToDict, hs)],
              terminal_profiles |-> [arr |-> Map(ProfileToDict, ps)]]]

SaveFailures == {"open_fail", "write_fail", "chmod_fail"}
SaveCrashes == {"crash_before_open", "crash_after_open", "crash_mid_write",
                "crash_before_chmod"}
SaveOutcomes == {"ok"} \cup SaveFailures \cup SaveCrashes

\* The file as the steps of save_config leave it, by how far the save got:
\* open(...,'w') creates or truncates, json.dump writes the text, os.chmod
\* restricts the mode.
SavedFile(hs, ps, f, out, createMode) ==
    LET opened == [exists |-> TRUE, content |-> [bad |-> "empty"],
                   mode |-> IF f.exists THEN f.mode ELSE createMode]
    IN CASE out \in {"open_fail", "crash_before_open"} -> f
         [] out = "crash_after_open" -> opened
         [] out \in {"write_fail", "crash_mid_write"} ->
                [opened EXCEPT !.content = [bad |-> "truncated"]]
         [] out \in {"chmod_fail", "crash_before_chmod"} ->
                [opened EXCEPT !.content = ConfigDocument(hs, ps)]
         [] OTHER ->
                [opened EXCEPT !.content = ConfigDocument(hs, ps),
                               !.mode = OwnerOnly]

\* SSHConnectWindow.save_config: the file it leaves and the messages it shows
save_config(hs, ps, f, out, createMode) ==
    [file |-> SavedFile(hs, ps, f, out, createMode),
     msgs |-> IF out \in SaveFailures THEN <<ErrorDialog("Save Error")>>
              ELSE <<>>]

\* [SSHHost.from_dict(h) for h in items]: raises when an element is no dict
DecodeHosts(items) ==
    IF \A i \in 1..Len(items) : IsDict(items[i])
    THEN [ok |-> TRUE, list |-> Map(HostFromDict, items)]
    ELSE [ok |-> FALSE, list |-> <<>>]

DecodeProfiles(items) ==
    IF \A i \in 1..Len(items) : IsDict(items[i])
    THEN [ok |-> TRUE, list |-> Map(ProfileFromDict, items)]
    ELSE [ok |-> FALSE, list |-> <<>>]

\* data[key] in place of data.get(key, []): an absent key raises KeyError
ItemsRequired(data, key) ==
    IF key \in DOMAIN data.obj /\ IsList(data.obj[key])
    THEN [ok |-> TRUE, items |-> data.obj[key].arr]
    ELSE [ok |-> FALSE, items |-> <<>>]

\* iterating data.get(key, []): a list gives its items, null raises TypeError
Items(data, key) ==
    LET v == Get(data.obj, key, [arr |-> <<>>])
    IN IF IsList(v) THEN [ok |-> TRUE, items |-> v.arr]
       ELSE [ok |-> FALSE, items |-> <<>>]

LoadResult(hs, ps, f, msgs, saved) ==
    [hosts |-> hs, profiles |-> ps, file |-> f, msgs |-> msgs, saved |-> saved]

\* the "new format" branch of load_config: both keys read with [] as the
\* default, every element through from_dict
DecodeVersioned(data) ==
    LET hi == Items(data, "ssh_hosts")
        pi == Items(data, "terminal_profiles")
        hd == DecodeHosts(hi.items)
        pd == DecodeProfiles(pi.items)
    IN [ok |-> hi.ok /\ hd.ok /\ pi.ok /\ pd.ok,
        hosts |-> hd.list, profiles |-> pd.list]

\* an except clause that empties the lists and reports nothing
LoadFailedSilent(f) == LoadResult(<<>>, <<>>, f, <<>>, FALSE)

\* an except clause that also resets the file to an empty document
LoadFailedResets(f) ==
    LoadResult(<<>>, <<>>, [f EXCEPT !.content = [obj |-> [version |-> 2,
                                       ssh_hosts |-> [arr |-> <<>>],
                                       terminal_profiles |-> [arr |-> <<>>]]]],
               <<[via |-> "idle", title |-> "Configuration Error"]>>, FALSE)

\* either except clause of load_config: both lists emptied, one error
\* report handed to GLib.idle_add
LoadFailed(f) ==
    LoadResult(<<>>, <<>>, f, <<IdleError("Configuration Error")>>, FALSE)

\* an "old format" branch that decodes and does not save
LoadLegacyNoRewrite(f, items, out, createMode) ==
    LET dec == DecodeHosts(items) IN
    IF dec.ok THEN LoadResult(dec.list, <<>>, f, <<>>, FALSE)
    ELSE LoadFailed(f)

\* the "old format" branch: the hosts decoded, no profiles, save_config
LoadLegacy(f, items, out, createMode) ==
    LET dec == DecodeHosts(items) IN
    IF dec.ok
    THEN LET s == save_config(dec.list, <<>>, f, out, createMode)
         IN LoadResult(dec.list, <<>>, s.file, s.msgs, TRUE)
    ELSE LoadFailed(f)

\* SSHConnectWindow.load_config, entered with both lists empty.
\* read: "ok" or "oserror" (open() raises); out, createMode: the outcome of
\* the save the legacy branch makes.
load_config(f, read, out, createMode) ==
    IF ~f.exists THEN LoadResult(<<>>, <<>>, f, <<>>, FALSE)
    ELSE IF read # "ok" THEN LoadFailed(f)
    ELSE LET data == f.content IN
      IF "bad" \in DOMAIN data THEN LoadFailed(f)
      ELSE IF IsList(data) THEN LoadLegacy(f, data.arr, out, createMode)
      ELSE IF IsDict(data)
      THEN LET dec == DecodeVersioned(data) IN
           IF dec.ok
           THEN LoadResult(dec.hosts, dec.profiles, f, <<>>, FALSE)
           ELSE LoadFailed(f)
      ELSE LoadFailed(f)

\* what the versioned file decodes to
Decoded(f) ==
    IF f.exists /\ IsDict(f.content) THEN DecodeVersioned(f.content)
    ELSE [ok |-> FALSE, hosts |-> <<>>, profiles |-> <<>>]

(***************************************************************************)
(* HostDialog and TerminalProfileDialog: the entries' texts are the form.  *)
(***************************************************************************)
\* a validate without the range test on the port
HostValidateNoRange(form) ==
    LET name == Strip(form.name)
        ip == Strip(form.ip)
        port_text == Strip(form.port)
        port == ParseInt(port_text)
    IN IF name = "" THEN "Name is required."
       ELSE IF ip = "" THEN "IP/Hostname is required."
       ELSE IF port_text # "" /\ ~port.ok THEN "Port must be a valid number."
       ELSE "None"

\* HostDialog.validate: the error message, or "None"
HostValidate(form) ==
    LET name == Strip(form.name)
        ip == Strip(form.ip)
        port_text == Strip(form.port)
        port == ParseInt(port_text)
    IN IF name = "" THEN "Name is required."
       ELSE IF ip = "" THEN "IP/Hostname is required."
       ELSE IF port_text # "" /\ ~port.ok THEN "Port must be a valid number."
       ELSE IF port_text # "" /\ (port.val < 1 \/ port.val > 65535)
            THEN "Port must be between 1 and 65535."
       ELSE "None"

NoRecord == [none |-> TRUE]

\* the port get_host computes from the port entry
HostPort(text) ==
    LET p == ParseInt(text)
    IN IF p.ok /\ ~(p.val < 1 \/ p.val > 65535) THEN p.val ELSE 22

\* the links get_host collects: rows with both texts non-empty, stripped
RECURSIVE HostLinks(_)
HostLinks(rows) ==
    IF rows = <<>> THEN <<>>
    ELSE LET n == Strip(Head(rows).name)
             u == Strip(Head(rows).url)
         IN (IF n # "" /\ u # "" THEN <<[name |-> n, url |-> u]>> ELSE <<>>)
            \o HostLinks(Tail(rows))

\* HostDialog.get_host
get_host(form) ==
    LET name == Strip(form.name)
        ip == Strip(form.ip)
    IN IF name # "" /\ ip # ""
       THEN SSHHost(name, ip, Strip(form.username), HostPort(form.port),
                    Strip(form.certificate), HostLinks(form.links))
       ELSE NoRecord

\* TerminalProfileDialog.validate
ProfileValidate(form) ==
    LET name == Strip(form.name)
        git_username == Strip(form.git_username)
        git_email == Strip(form.git_email)
    IN IF name = "" THEN "Profile name is required."
       ELSE IF git_username = "" THEN "Git username is required."
       ELSE IF git_email = "" THEN "Git email is required."
       ELSE IF ~Contains(git_email, "@")
            THEN "Git email must be a valid email address."
       ELSE "None"

\* TerminalProfileDialog.get_profile
get_profile(form) ==
    LET name == Strip(form.name)
        git_username == Strip(form.git_username)
        git_email == Strip(form.git_email)
    IN IF name # "" /\ git_username # "" /\ git_email # ""
       THEN TerminalProfile(name, git_username, git_email,
                            Strip(form.ssh_key_path), Strip(form.working_dir))
       ELSE NoRecord

\* What the user may type into the dialogs.
HostForms ==
    [name : {"", " a "}, ip : {"h"}, username : {""},
     port : {"", "2222", "0"}, certificate : {""}, links : {<<>>}]

ProfileForms ==
    [name : {"", "p"}, git_username : {"u"}, git_email : {"", "ex", "e@x"},
     ssh_key_path : {""}, working_dir : {""}]

\* Dialog.run() returns OK only for a form validate accepts (on_response
\* keeps the dialog open otherwise); after CANCEL the form is never read.
HostRuns == {[response |-> "CANCEL", form |-> NoRecord]}
            \cup {[response |-> "OK", form |-> f] :
                    f \in {g \in HostForms : HostValidate(g) = "None"}}

ProfileRuns == {[response |-> "CANCEL", form |-> NoRecord]}
               \cup {[response |-> "OK", form |-> f] :
                       f \in {g \in ProfileForms : ProfileValidate(g) = "None"}}

(***************************************************************************)
(* The config files a session may find at startup.                         *)
(***************************************************************************)
WorldReadable == {"rusr", "wusr", "rgrp", "roth"}

ConfigFile(content, mode) == [exists |-> TRUE, content |-> content, mode |-> mode]

InitFiles ==
    { NoFile,
      \* not JSON
      ConfigFile([bad |-> "garbage"], OwnerOnly),
      \* JSON, neither an array nor an object
      ConfigFile([num |-> 5], OwnerOnly),
      \* legacy: a bare array of host objects
      ConfigFile([arr |-> <<[obj |-> [name |-> "a", ip |-> "1.2.3.4"]]>>],
                 WorldReadable),
      ConfigFile([arr |-> <<[obj |-> [ip |-> "h", port |-> 70000]],
                            [obj |-> [name |-> "c", ip |-> "h", username |-> "u",
                                      port |-> 2222, certificate |-> "/k",
                                      links |-> <<[name |-> "w", url |-> "http://w"]>>]]>>],
                 OwnerOnly),
      \* legacy, with an element that is no object
      ConfigFile([arr |-> <<[obj |-> [name |-> "b", ip |-> "h"]], [num |-> 7]>>],
                 OwnerOnly),
      \* versioned
      ConfigFile([obj |-> [version |-> 2,
                           ssh_hosts |-> [arr |-> <<[obj |-> [name |-> "c", ip |-> "h",
                                                              comment |-> "x"]]>>],
                           terminal_profiles |-> [arr |-> <<[obj |-> [name |-> "q",
                                                    git_username |-> "u",
                                                    git_email |-> "e@x",
                                                    shell |-> "zsh"]]>>]]],
                 WorldReadable),
      \* versioned, both keys absent
      ConfigFile([obj |-> [version |-> 2]], OwnerOnly),
      \* versioned, a profile that is no object after a host that decodes
      ConfigFile([obj |-> [version |-> 2,
                           ssh_hosts |-> [arr |-> <<[obj |-> [name |-> "b", ip |-> "h"]]>>],
                           terminal_profiles |-> [arr |-> <<[num |-> 7]>>]]],
                 OwnerOnly),
      \* versioned, ssh_hosts absent, a profile without git_username whose
      \* git_email has no "@"
      ConfigFile([obj |-> [version |-> 2,
                           terminal_profiles |-> [arr |-> <<[obj |-> [name |-> "r",
                                                    git_email |-> "ex"]]>>]]],
                 OwnerOnly),
      \* versioned, ssh_hosts null
      ConfigFile([obj |-> [version |-> 2, ssh_hosts |-> [null |-> TRUE]]],
                 OwnerOnly) }

(***************************************************************************)
(* The window: startup, the handlers of the two tabs, close.               *)
(***************************************************************************)
\* lost: "pending" from a load that failed until a save succeeds, "now" in
\* the state that save leaves
Last(op, read, out, msgs, saved) ==
    [op |-> op, read |-> read, out |-> out, msgs |-> msgs, saved |-> saved,
     wasUnsaved |-> unsaved,
     lost |-> IF op = "load"
              THEN IF \E i \in 1..Len(msgs) : msgs[i].via = "idle"
                   THEN "pending" ELSE "no"
              ELSE IF op = "close" \/ out \in SaveCrashes THEN "no"
              ELSE IF last.lost = "pending"
              THEN IF saved /\ out = "ok" THEN "now" ELSE "pending"
              ELSE "no"]

NotWritten == [ok |-> FALSE]

\* the ghost "written" after a save that ended as out
Written(hs, ps, f, out) ==
    IF out = "ok" THEN [ok |-> TRUE, hosts |-> hs, profiles |-> ps]
    ELSE IF out \in {"open_fail", "crash_before_open"} THEN written
    ELSE NotWritten

IdleCmd == [fn |-> "none"]
IdleRepo == [state |-> "none"]

Init ==
    /\ pc = "off"
    /\ hosts = <<>>
    /\ terminal_profiles = <<>>
    /\ file \in InitFiles
    /\ unsaved = FALSE
    /\ faults = 0
    /\ last = [op |-> "boot", read |-> "none", out |-> "none", msgs |-> <<>>,
               saved |-> FALSE, wasUnsaved |-> FALSE, lost |-> "no"]
    /\ written = NotWritten
    /\ cmd = IdleCmd
    /\ repo = IdleRepo

\* a handler tail that puts the lists back when the save fails
MutateRollback(op, hs, ps) ==
    \E out \in SaveOutcomes :
    \E createMode \in IF file.exists THEN {OwnerOnly} ELSE CreateModes :
        /\ out = "ok" \/ faults < MaxFaults
        /\ LET s == save_config(hs, ps, file, out, createMode) IN
            /\ file' = s.file
            /\ last' = Last(op, "none", out, s.msgs, TRUE)
        /\ written' = Written(hs, ps, file, out)
        /\ faults' = IF out = "ok" THEN faults ELSE faults + 1
        /\ IF out \in SaveCrashes
           THEN /\ pc' = "off"
                /\ hosts' = <<>>
                /\ terminal_profiles' = <<>>
                /\ unsaved' = FALSE
           ELSE /\ pc' = "running"
                /\ hosts' = IF out = "ok" THEN hs ELSE hosts
                /\ terminal_profiles' = IF out = "ok" THEN ps
                                        ELSE terminal_profiles
                /\ unsaved' = unsaved

\* the tail of every mutating handler: the lists are assigned, then
\* self.save_config() runs; a crash inside it ends the process
Mutate(op, hs, ps) ==
    \E out \in SaveOutcomes :
    \E createMode \in IF file.exists THEN {OwnerOnly} ELSE CreateModes :
        /\ out = "ok" \/ faults < MaxFaults
        /\ LET s == save_config(hs, ps, file, out, createMode) IN
            /\ file' = s.file
            /\ last' = Last(op, "none", out, s.msgs, TRUE)
        /\ written' = Written(hs, ps, file, out)
        /\ faults' = IF out = "ok" THEN faults ELSE faults + 1
        /\ IF out \in SaveCrashes
           THEN /\ pc' = "off"
                /\ hosts' = <<>>
                /\ terminal_profiles' = <<>>
                /\ unsaved' = FALSE
           ELSE /\ pc' = "running"
                /\ hosts' = hs
                /\ terminal_profiles' = ps
                /\ unsaved' = (out # "ok")

\* a handler that saves the lists on every path
NoChangeSaves == Mutate("noop", hosts, terminal_profiles)

\* a handler that returns without touching the lists or the file
NoChange ==
    /\ last' = Last("noop", "none", "none", <<>>, FALSE)
    /\ UNCHANGED <<pc, hosts, terminal_profiles, file, unsaved, written, faults>>

\* SSHConnectWindow.__init__: both lists empty, then load_config
StartWindow ==
    /\ pc = "off"
    /\ \E read \in {"ok", "oserror"}, out \in SaveOutcomes :
       \E createMode \in {OwnerOnly} :
        LET r == load_config(file, read, out, createMode)
            failed == (r.saved /\ out # "ok") \/ (file.exists /\ read # "ok")
        IN /\ r.saved \/ out = "ok"
           /\ file.exists \/ read = "ok"
           /\ ~failed \/ faults < MaxFaults
           /\ faults' = IF failed THEN faults + 1 ELSE faults
           /\ file' = r.file
           /\ last' = Last("load", IF file.exists THEN read ELSE "none",
                           IF r.saved THEN out ELSE "none", r.msgs, r.saved)
           /\ written' = IF r.saved THEN Written(r.hosts, r.profiles, file, out)
                         ELSE written
           /\ IF r.saved /\ out \in SaveCrashes
              THEN /\ pc' = "off"
                   /\ hosts' = <<>>
                   /\ terminal_profiles' = <<>>
                   /\ unsaved' = FALSE
              ELSE /\ pc' = "running"
                   /\ hosts' = r.hosts
                   /\ terminal_profiles' = r.profiles
                   /\ unsaved' = (r.saved /\ out # "ok")

Start == StartWindow /\ UNCHANGED <<cmd, repo>>

\* the window is closed and Gtk.main_quit ends the process
Close ==
    /\ pc = "running"
    /\ pc' = "off"
    /\ hosts' = <<>>
    /\ terminal_profiles' = <<>>
    /\ unsaved' = FALSE
    /\ last' = Last("close", "none", "none", <<>>, FALSE)
    /\ UNCHANGED <<file, written, faults, cmd, repo>>

\* list.index(obj) and list.remove(obj) compare by identity (neither class
\* defines __eq__): the selected row's object is the one at its own position
Index(list, sel) == sel

RemoveAt(list, i) == SubSeq(list, 1, i - 1) \o SubSeq(list, i + 1, Len(list))

\* a move that writes the selected record over its neighbour
SwapOverwrites(list, i, j) == [list EXCEPT ![j] = list[i]]

\* a[i], a[j] = a[j], a[i]
Swap(list, i, j) == [list EXCEPT ![i] = list[j], ![j] = list[i]]

CopySuffix == " (copy)"

RECURSIVE CopyDepth(_)
CopyDepth(name) ==
    IF Len(name) >= Len(CopySuffix)
       /\ SubSeq(name, Len(name) - Len(CopySuffix) + 1, Len(name)) = CopySuffix
    THEN 1 + CopyDepth(SubSeq(name, 1, Len(name) - Len(CopySuffix)))
    ELSE 0

\* the handlers with their inputs named: the selected row (0: none), the
\* dialog's run, the answer to the delete question
HostAdd(run) ==
    LET new_host == IF run.response = "OK" THEN get_host(run.form)
                    ELSE NoRecord IN
    IF run.response = "OK" /\ new_host # NoRecord
    THEN /\ Len(hosts) < MaxHosts
         /\ Mutate("host_add", Append(hosts, new_host), terminal_profiles)
    ELSE NoChange

on_host_add_clicked ==
    /\ pc = "running"
    /\ \E run \in HostRuns : HostAdd(run)
    /\ UNCHANGED <<cmd, repo>>

HostEdit(sel, run) ==
    IF sel = 0 THEN NoChange
    ELSE LET edited_host == IF run.response = "OK" THEN get_host(run.form)
                            ELSE NoRecord IN
         IF run.response = "OK" /\ edited_host # NoRecord
         THEN Mutate("host_edit", [hosts EXCEPT ![Index(hosts, sel)] = edited_host],
                     terminal_profiles)
         ELSE NoChange

on_host_edit_clicked ==
    /\ pc = "running"
    /\ \E sel \in 0..Len(hosts), run \in HostRuns : HostEdit(sel, run)
    /\ UNCHANGED <<cmd, repo>>

\* A links value read from the file that is no list is held as the
\* one-element sequence of its tagged JSON value, <<[num |-> 0]>> for 0.
Iterable(links) == \A i \in 1..Len(links) : "num" \notin DOMAIN links[i]

HostDuplicate(host) ==
    SSHHost(host.name \o CopySuffix, host.ip, host.username, host.port,
            host.certificate, host.links)

\* "for link in host.links" raises TypeError on a value that is no list;
\* the handler ends there, before the append
HostDuplicateAt(sel) ==
    IF sel = 0 THEN NoChange
    ELSE IF ~Iterable(hosts[sel].links) THEN NoChange
    ELSE /\ Len(hosts) < MaxHosts
         /\ CopyDepth(hosts[sel].name) < MaxCopies
         /\ Mutate("host_duplicate", Append(hosts, HostDuplicate(hosts[sel])),
                   terminal_profiles)

on_host_duplicate_clicked ==
    /\ pc = "running"
    /\ \E sel \in 0..Len(hosts) : HostDuplicateAt(sel)
    /\ UNCHANGED <<cmd, repo>>

HostDelete(sel, response) ==
    IF sel = 0 THEN response = "NO" /\ NoChange
    ELSE IF response = "YES"
    THEN Mutate("host_delete", RemoveAt(hosts, Index(hosts, sel)),
                terminal_profiles)
    ELSE NoChange

on_host_delete_clicked ==
    /\ pc = "running"
    /\ \E sel \in 0..Len(hosts), response \in {"YES", "NO"} :
        HostDelete(sel, response)
    /\ UNCHANGED <<cmd, repo>>

MoveHostUp(sel) ==
    IF sel # 0 /\ Index(hosts, sel) > 1
    THEN Mutate("move_host_up", Swap(hosts, Index(hosts, sel), Index(hosts, sel) - 1),
                terminal_profiles)
    ELSE NoChange

move_host_up ==
    /\ pc = "running"
    /\ \E sel \in 0..Len(hosts) : MoveHostUp(sel)
    /\ UNCHANGED <<cmd, repo>>

MoveHostDown(sel) ==
    IF sel # 0 /\ Index(hosts, sel) < Len(hosts)
    THEN Mutate("move_host_down", Swap(hosts, Index(hosts, sel), Index(hosts, sel) + 1),
                terminal_profiles)
    ELSE NoChange

move_host_down ==
    /\ pc = "running"
    /\ \E sel \in 0..Len(hosts) : MoveHostDown(sel)
    /\ UNCHANGED <<cmd, repo>>

ProfileAdd(run) ==
    LET new_profile == IF run.response = "OK" THEN get_profile(run.form)
                       ELSE NoRecord IN
    IF run.response = "OK" /\ new_profile # NoRecord
    THEN /\ Len(terminal_profiles) < MaxProfiles
         /\ Mutate("profile_add", hosts, Append(terminal_profiles, new_profile))
    ELSE NoChange

on_profile_add_clicked ==
    /\ pc = "running"
    /\ \E run \in ProfileRuns : ProfileAdd(run)
    /\ UNCHANGED <<cmd, repo>>

ProfileEdit(sel, run) ==
    IF sel = 0 THEN NoChange
    ELSE LET edited_profile == IF run.response = "OK"
                               THEN get_profile(run.form) ELSE NoRecord IN
         IF run.response = "OK" /\ edited_profile # NoRecord
         THEN Mutate("profile_edit", hosts,
                     [terminal_profiles EXCEPT
                         ![Index(terminal_profiles, sel)] = edited_profile])
         ELSE NoChange

on_profile_edit_clicked ==
    /\ pc = "running"
    /\ \E sel \in 0..Len(terminal_profiles), run \in ProfileRuns :
        ProfileEdit(sel, run)
    /\ UNCHANGED <<cmd, repo>>

ProfileDuplicate(profile) ==
    TerminalProfile(profile.name \o CopySuffix, profile.git_username,
                    profile.git_email, profile.ssh_key_path,
                    profile.working_dir)

ProfileDuplicateAt(sel) ==
    IF sel = 0 THEN NoChange
    ELSE /\ Len(terminal_profiles) < MaxProfiles
         /\ CopyDepth(terminal_profiles[sel].name) < MaxCopies
         /\ Mutate("profile_duplicate", hosts,
                   Append(terminal_profiles,
                          ProfileDuplicate(terminal_profiles[sel])))

on_profile_duplicate_clicked ==
    /\ pc = "running"
    /\ \E sel \in 0..Len(terminal_profiles) : ProfileDuplicateAt(sel)
    /\ UNCHANGED <<cmd, repo>>

ProfileDelete(sel, response) ==
    IF sel = 0 THEN response = "NO" /\ NoChange
    ELSE IF response = "YES"
    THEN Mutate("profile_delete", hosts,
                RemoveAt(terminal_profiles, Index(terminal_profiles, sel)))
    ELSE NoChange

on_profile_delete_clicked ==
    /\ pc = "running"
    /\ \E sel \in 0..Len(terminal_profiles), response \in {"YES", "NO"} :
        ProfileDelete(sel, response)
    /\ UNCHANGED <<cmd, repo>>

MoveProfileUp(sel) ==
    IF sel # 0 /\ Index(terminal_profiles, sel) > 1
    THEN Mutate("move_profile_up", hosts,
                Swap(terminal_profiles, Index(terminal_profiles, sel),
                     Index(terminal_profiles, sel) - 1))
    ELSE NoChange

move_profile_up ==
    /\ pc = "running"
    /\ \E sel \in 0..Len(terminal_profiles) : MoveProfileUp(sel)
    /\ UNCHANGED <<cmd, repo>>

MoveProfileDown(sel) ==
    IF sel # 0 /\ Index(terminal_profiles, sel) < Len(terminal_profiles)
    THEN Mutate("move_profile_down", hosts,
                Swap(terminal_profiles, Index(terminal_profiles, sel),
                     Index(terminal_profiles, sel) + 1))
    ELSE NoChange

move_profile_down ==
    /\ pc = "running"
    /\ \E sel \in 0..Len(terminal_profiles) : MoveProfileDown(sel)
    /\ UNCHANGED <<cmd, repo>>

Next ==
    \/ Start
    \/ Close
    \/ on_host_add_clicked
    \/ on_host_edit_clicked
    \/ on_host_duplicate_clicked
    \/ on_host_delete_clicked
    \/ move_host_up
    \/ move_host_down
    \/ on_profile_add_clicked
    \/ on_profile_edit_clicked
    \/ on_profile_duplicate_clicked
    \/ on_profile_delete_clicked
    \/ move_profile_up
    \/ move_profile_down

Spec == Init /\ [][Next]_vars

(***************************************************************************)
(* The command builders, applied to records of every shape.                *)
(***************************************************************************)
CmdHosts ==
    [name : {"a", "b"}, ip : {"h", "10.0.0.1"}, username : {"", "u"},
     port : {22, 2222, 1, 65535}, certificate : {"", "/k", "/my key"},
     links : {<<>>, <<[name |-> "w", url |-> "http://w"]>>}]

CmdProfiles ==
    [name : {"p"}, git_username : {"u", "Ann Lee"}, git_email : {"e@x", "a@b.c"},
     ssh_key_path : {"", "/k", "/my key", "/it's"}, working_dir : {"", "/w"}]

CmdInit ==
    /\ pc = "off"
    /\ hosts = <<>>
    /\ terminal_profiles = <<>>
    /\ file = NoFile
    /\ unsaved = FALSE
    /\ faults = 0
    /\ last = [op |-> "boot", read |-> "none", out |-> "none", msgs |-> <<>>,
               saved |-> FALSE, wasUnsaved |-> FALSE, lost |-> "no"]
    /\ written = NotWritten
    /\ cmd = IdleCmd
    /\ repo = IdleRepo

BuildSshArgs ==
    /\ \E host \in CmdHosts :
        cmd' = [fn |-> "get_ssh_args", arg |-> host,
                result |-> get_ssh_args(host)]
    /\ UNCHANGED <<appVars, repo>>

BuildEnvironment ==
    /\ \E profile \in CmdProfiles :
        cmd' = [fn |-> "get_environment", arg |-> profile,
                result |-> get_environment(profile)]
    /\ UNCHANGED <<appVars, repo>>

CmdNext == BuildSshArgs \/ BuildEnvironment

CmdSpec == CmdInit /\ [][CmdNext]_vars

(***************************************************************************)
(* The persistent git identity.  A project directory is                    *)
(*   [git_dir, local, include, git_installed]: whether .git exists, the    *)
(* file .gitconfig.local, the include.path entries of .git/config in file  *)
(* order, and whether the git executable is on the PATH.                   *)
(***************************************************************************)
MaxInclude == 2

ProjectName == "proj"

IncludeLocal == "../.gitconfig.local"
IncludeOther == "other.inc"

NoLocal == [exists |-> FALSE, text |-> ""]

\* config_content
ConfigContent(self) ==
    "[user]\n    name = " \o self.git_username
        \o "\n    email = " \o self.git_email \o "\n"

\* git config --local --get include.path: the last value, exit 1 without one
GitConfigGet(include) ==
    IF include = <<>> THEN [rc |-> 1, stdout |-> ""]
    ELSE [rc |-> 0, stdout |-> include[Len(include)] \o "\n"]

\* git config --local include.path <value>: sets the only value, refuses
\* (exit 5) to overwrite several; fault: any other failure of git
GitConfigSet(include, value, fault) ==
    IF fault THEN [rc |-> 4, include |-> include]
    ELSE IF Len(include) > 1 THEN [rc |-> 5, include |-> include]
    ELSE [rc |-> 0, include |-> <<value>>]

\* a test that never finds the include
AlreadyIncludedNever(stdout) == FALSE

\* ".gitconfig.local" not in result.stdout, negated
AlreadyIncluded(stdout) == Contains(stdout, ".gitconfig.local")

IdentityResult(r, ok, message, steps) ==
    [repo |-> r, ok |-> ok, message |-> message, steps |-> steps]

\* apply_persistent_identity writing .gitconfig.local before it looks for .git
apply_persistent_identity_writes_first(self, r, write, fault) ==
    LET r1 == [r EXCEPT !.local = [exists |-> TRUE,
                                    text |-> ConfigContent(self)]]
    IN IF write # "ok"
       THEN IdentityResult(r, FALSE, "Failed to create .gitconfig.local",
                           <<"write">>)
       ELSE IF ~r.git_dir
       THEN IdentityResult(r1, FALSE,
               "Not a git repository (no .git directory found)", <<"write">>)
       ELSE IF ~r.git_installed
       THEN IdentityResult(r1, FALSE, "git command not found",
                           <<"write", "get">>)
       ELSE LET got == GitConfigGet(r1.include) IN
         IF AlreadyIncluded(got.stdout)
         THEN IdentityResult(r1, TRUE, "Identity set for " \o ProjectName,
                             <<"write", "get">>)
         ELSE LET set == GitConfigSet(r1.include, IncludeLocal, fault)
                  r2 == [r1 EXCEPT !.include = set.include]
              IN IdentityResult(r2, set.rc = 0,
                     IF set.rc = 0 THEN "Identity set for " \o ProjectName
                     ELSE "Failed to configure git include path",
                     <<"write", "get", "set">>)

\* apply_persistent_identity giving up when the read step exits non-zero
apply_persistent_identity_strict_get(self, r, write, fault) ==
    IF ~r.git_dir
    THEN IdentityResult(r, FALSE,
            "Not a git repository (no .git directory found)", <<>>)
    ELSE IF write # "ok"
    THEN IdentityResult(r, FALSE, "Failed to create .gitconfig.local",
                        <<"write">>)
    ELSE LET r1 == [r EXCEPT !.local = [exists |-> TRUE,
                                         text |-> ConfigContent(self)]]
         IN IF ~r.git_installed
            THEN IdentityResult(r1, FALSE, "git command not found",
                                <<"write", "get">>)
            ELSE LET got == GitConfigGet(r1.include) IN
              IF got.rc # 0
              THEN IdentityResult(r1, FALSE,
                      "Failed to configure git include path", <<"write", "get">>)
              ELSE IF AlreadyIncluded(got.stdout)
              THEN IdentityResult(r1, TRUE, "Identity set for " \o ProjectName,
                                  <<"write", "get">>)
              ELSE LET set == GitConfigSet(r1.include, IncludeLocal, fault)
                       r2 == [r1 EXCEPT !.include = set.include]
                   IN IdentityResult(r2, set.rc = 0,
                          IF set.rc = 0 THEN "Identity set for " \o ProjectName
                          ELSE "Failed to configure git include path",
                          <<"write", "get", "set">>)

\* apply_persistent_identity writing .gitconfig.local only once the git
\* steps have succeeded
apply_persistent_identity_writes_last(self, r, write, fault) ==
    LET written_r(q) == [q EXCEPT !.local = [exists |-> TRUE,
                                              text |-> ConfigContent(self)]]
        done == "Identity set for " \o ProjectName \o ": "
                    \o self.git_username \o " <" \o self.git_email \o ">"
    IN IF ~r.git_dir
       THEN IdentityResult(r, FALSE,
               "Not a git repository (no .git directory found)", <<>>)
       ELSE IF ~r.git_installed
       THEN IdentityResult(r, FALSE, "git command not found", <<"get">>)
       ELSE IF AlreadyIncluded(GitConfigGet(r.include).stdout)
       THEN IF write # "ok"
            THEN IdentityResult(r, FALSE, "Failed to create .gitconfig.local",
                                <<"get", "write">>)
            ELSE IdentityResult(written_r(r), TRUE, done, <<"get", "write">>)
       ELSE LET set == GitConfigSet(r.include, IncludeLocal, fault)
                r2 == [r EXCEPT !.include = set.include]
            IN IF set.rc # 0
               THEN IdentityResult(r2, FALSE,
                       "Failed to configure git include path", <<"get", "set">>)
               ELSE IF write # "ok"
               THEN IdentityResult(r2, FALSE,
                       "Failed to create .gitconfig.local",
                       <<"get", "set", "write">>)
               ELSE IdentityResult(written_r(r2), TRUE, done,
                                   <<"get", "set", "write">>)

\* TerminalProfile.apply_persistent_identity on project directory r.
\* write: "ok" or "oserror" of write_text; fault: of the set step.
apply_persistent_identity(self, r, write, fault) ==
    IF ~r.git_dir
    THEN IdentityResult(r, FALSE,
            "Not a git repository (no .git directory found)", <<>>)
    ELSE IF write # "ok"
    THEN IdentityResult(r, FALSE, "Failed to create .gitconfig.local",
                        <<"write">>)
    ELSE LET r1 == [r EXCEPT !.local = [exists |-> TRUE,
                                         text |-> ConfigContent(self)]]
         IN IF ~r.git_installed
            THEN IdentityResult(r1, FALSE, "git command not found",
                                <<"write", "get">>)
            ELSE LET got == GitConfigGet(r1.include) IN
              IF AlreadyIncluded(got.stdout)
              THEN IdentityResult(r1, TRUE,
                      "Identity set for " \o ProjectName \o ": "
                          \o self.git_username \o " <" \o self.git_email \o ">",
                      <<"write", "get">>)
              ELSE LET set == GitConfigSet(r1.include, IncludeLocal, fault)
                       r2 == [r1 EXCEPT !.include = set.include]
                   IN IF set.rc # 0
                      THEN IdentityResult(r2, FALSE,
                              "Failed to configure git include path",
                              <<"write", "get", "set">>)
                      ELSE IdentityResult(r2, TRUE,
                              "Identity set for " \o ProjectName \o ": "
                                  \o self.git_username \o " <"
                                  \o self.git_email \o ">",
                              <<"write", "get", "set">>)

GitProfiles ==
    { TerminalProfile("p", "u", "e@x", "", "/proj"),
      TerminalProfile("q", "Ann Lee", "a@b.c", "/k", "/proj") }

RECURSIVE SeqsUpTo(_, _)
SeqsUpTo(S, n) ==
    IF n = 0 THEN {<<>>}
    ELSE SeqsUpTo(S, n - 1)
         \cup {Append(q, x) : q \in {t \in SeqsUpTo(S, n - 1) : Len(t) = n - 1},
                              x \in S}

NoCall == [op |-> "none", profile |-> NoRecord, ok |-> FALSE, message |-> "",
           steps |-> <<>>, again |-> FALSE, write |-> "none", fault |-> FALSE]

GitInit ==
    /\ pc = "off"
    /\ hosts = <<>>
    /\ terminal_profiles = <<>>
    /\ file = NoFile
    /\ unsaved = FALSE
    /\ faults = 0
    /\ last = [op |-> "boot", read |-> "none", out |-> "none", msgs |-> <<>>,
               saved |-> FALSE, wasUnsaved |-> FALSE, lost |-> "no"]
    /\ written = NotWritten
    /\ cmd = IdleCmd
    /\ \E git_dir \in BOOLEAN, git_installed \in BOOLEAN,
          local \in {NoLocal, [exists |-> TRUE, text |-> "[user]\n"]},
          include \in SeqsUpTo({IncludeLocal, IncludeOther}, MaxInclude) :
        repo = [git_dir |-> git_dir, local |-> local, include |-> include,
                git_installed |-> git_installed, call |-> NoCall]

ApplyIdentity ==
    /\ \E profile \in GitProfiles, write \in {"ok", "oserror"},
          fault \in BOOLEAN :
        LET r == [git_dir |-> repo.git_dir, local |-> repo.local,
                  include |-> repo.include,
                  git_installed |-> repo.git_installed]
            res == apply_persistent_identity(profile, r, write, fault)
        IN repo' = [git_dir |-> res.repo.git_dir, local |-> res.repo.local,
                    include |-> res.repo.include,
                    git_installed |-> res.repo.git_installed,
                    call |-> [op |-> "apply", profile |-> profile,
                              ok |-> res.ok, message |-> res.message,
                              steps |-> res.steps,
                              again |-> /\ repo.call.ok
                                        /\ repo.call.profile = profile,
                              write |-> write, fault |-> fault]]
    /\ UNCHANGED <<appVars, cmd>>

GitNext == ApplyIdentity

GitSpec == GitInit /\ [][GitNext]_vars

(***************************************************************************)
(* Launching.  cmd records the last launch: the argument vector and the    *)
(* environment handed to subprocess.Popen, the outcome of Popen, the       *)
(* dialogs shown, the steps in program order, and environ, the launcher's  *)
(* own os.environ.  repo is the directory the profiles' working_dir names. *)
(***************************************************************************)
Terminal == "gnome-terminal"
ProjectDir == "/proj"

\* Popen returns, raises FileNotFoundError, or raises something else
SpawnOutcomes == {"ok", "not_found", "error"}

\* an argument vector with the ssh command joined into one string
ConnectArgsJoined(host) ==
    LET a == get_ssh_args(host)
        Join[i \in 0..Len(a)] ==
            IF i = 0 THEN ""
            ELSE IF i = 1 THEN a[1] ELSE Join[i - 1] \o " " \o a[i]
    IN <<Terminal, "--", Join[Len(a)]>>

\* connect_to_host: args
ConnectArgs(host) == <<Terminal, "--">> \o get_ssh_args(host)

\* launch_terminal_profile: args
LaunchArgs(profile) ==
    IF profile.working_dir # ""
    THEN <<Terminal, "--working-directory", profile.working_dir>>
    ELSE <<Terminal>>

\* an update in which a key the process already defines keeps its value
LaunchEnvKeepsProcess(environ, profile) ==
    LET over == get_environment(profile) IN
    [k \in DOMAIN environ \cup DOMAIN over |->
        IF k \in DOMAIN environ THEN environ[k] ELSE over[k]]

\* env = os.environ.copy(); env.update(profile.get_environment())
LaunchEnv(environ, profile) ==
    LET over == get_environment(profile) IN
    [k \in DOMAIN environ \cup DOMAIN over |->
        IF k \in DOMAIN over THEN over[k] ELSE environ[k]]

\* a test that looks at working_dir only
AppliesIdentityAnyDir(profile, r) == profile.working_dir # ""

\* if profile.working_dir: ... if git_dir.exists():
AppliesIdentity(profile, r) == profile.working_dir # "" /\ r.git_dir

\* handlers that show nothing when Popen raises
SpawnMessagesNone(fn, spawn) == <<>>

\* the except clauses around Popen
SpawnMessages(fn, spawn) ==
    IF spawn = "not_found" THEN <<ErrorDialog("Terminal Not Found")>>
    ELSE IF spawn = "error"
    THEN <<ErrorDialog(IF fn = "connect_to_host" THEN "Connection Error"
                       ELSE "Launch Error")>>
    ELSE <<>>

\* the steps after the identity step: one Popen, then self.close() unless
\* an except clause returned
SpawnSteps(spawn) ==
    IF spawn = "ok" THEN <<"spawn", "close">> ELSE <<"spawn">>

LaunchHosts ==
    << SSHHost("a", "h", "", 22, "", <<>>),
       SSHHost("b c", "10.0.0.1", "u", 2222, "/my key",
               <<[name |-> "w", url |-> "http://w"]>>) >>

LaunchProfiles ==
    << TerminalProfile("p", "u", "e@x", "", ""),
       TerminalProfile("q", "Ann Lee", "a@b.c", "/my key", ProjectDir) >>

\* os.environ of the launcher: without and with git variables of its own
LaunchEnvirons ==
    { [PATH |-> "/bin"],
      [PATH |-> "/bin", GIT_AUTHOR_NAME |-> "old", GIT_SSH_COMMAND |-> "ssh -v",
       EDITOR |-> "vi"] }

LaunchInit ==
    /\ pc = "running"
    /\ hosts = LaunchHosts
    /\ terminal_profiles = LaunchProfiles
    /\ file = ConfigFile(ConfigDocument(LaunchHosts, LaunchProfiles), OwnerOnly)
    /\ unsaved = FALSE
    /\ faults = 0
    /\ last = [op |-> "boot", read |-> "none", out |-> "none", msgs |-> <<>>,
               saved |-> FALSE, wasUnsaved |-> FALSE, lost |-> "no"]
    /\ written = NotWritten
    /\ \E environ \in LaunchEnvirons : cmd = [fn |-> "none", environ |-> environ]
    /\ \E git_dir \in BOOLEAN, git_installed \in BOOLEAN,
          include \in SeqsUpTo({IncludeLocal, IncludeOther}, MaxInclude) :
        repo = [git_dir |-> git_dir, local |-> NoLocal, include |-> include,
                git_installed |-> git_installed, call |-> NoCall]

\* the window after the handler: closed, or still up with its lists
Launched(spawn) ==
    /\ pc' = IF spawn = "ok" THEN "off" ELSE "running"
    /\ hosts' = IF spawn = "ok" THEN <<>> ELSE hosts
    /\ terminal_profiles' = IF spawn = "ok" THEN <<>> ELSE terminal_profiles
    /\ UNCHANGED <<file, unsaved, written, faults, last>>

connect_to_host ==
    /\ pc = "running"
    /\ \E sel \in 1..Len(hosts), spawn \in SpawnOutcomes :
        LET host == hosts[sel] IN
        /\ cmd' = [fn |-> "connect_to_host", arg |-> host,
                   environ |-> cmd.environ,
                   argv |-> ConnectArgs(host), env |-> cmd.environ,
                   spawn |-> spawn,
                   msgs |-> SpawnMessages("connect_to_host", spawn),
                   steps |-> SpawnSteps(spawn)]
        /\ Launched(spawn)
    /\ UNCHANGED repo

\* the repository after launch_terminal_profile's identity step
LaunchRepo(profile, write, fault) ==
    LET r == [git_dir |-> repo.git_dir, local |-> repo.local,
              include |-> repo.include,
              git_installed |-> repo.git_installed]
        res == apply_persistent_identity(profile, r, write, fault)
    IN IF AppliesIdentity(profile, r)
       THEN [git_dir |-> res.repo.git_dir,
             local |-> res.repo.local,
             include |-> res.repo.include,
             git_installed |-> res.repo.git_installed,
             call |-> [op |-> "apply", profile |-> profile,
                       ok |-> res.ok, message |-> res.message,
                       steps |-> res.steps,
                       again |-> /\ repo.call.ok
                                 /\ repo.call.profile = profile,
                       write |-> write, fault |-> fault]]
       ELSE [repo EXCEPT !.call = NoCall]

launch_terminal_profile ==
    /\ pc = "running"
    /\ \E sel \in 1..Len(terminal_profiles), spawn \in SpawnOutcomes,
          write \in {"ok", "oserror"}, fault \in BOOLEAN :
        LET profile == terminal_profiles[sel]
            env == LaunchEnv(cmd.environ, profile)
            r == [git_dir |-> repo.git_dir, local |-> repo.local,
                  include |-> repo.include,
                  git_installed |-> repo.git_installed]
            applies == AppliesIdentity(profile, r)
        IN /\ applies \/ (write = "ok" /\ ~fault)
           /\ repo' = LaunchRepo(profile, write, fault)
           /\ cmd' = [fn |-> "launch_terminal_profile", arg |-> profile,
                      environ |-> cmd.environ,
                      argv |-> LaunchArgs(profile), env |-> env,
                      spawn |-> spawn,
                      msgs |-> SpawnMessages("launch_terminal_profile", spawn),
                      steps |-> (IF applies THEN <<"identity">> ELSE <<>>)
                                    \o SpawnSteps(spawn)]
           /\ Launched(spawn)

LaunchNext == connect_to_host \/ launch_terminal_profile

LaunchSpec == LaunchInit /\ [][LaunchNext]_vars

(***************************************************************************)
(* The host dialog, one response at a time.  While dialog.run() has not    *)
(* returned pc is "dialog" and cmd holds the dialog: the row it edits      *)
(* (sel = 0: Add Host), the entries at the last response, the validation   *)
(* error shown, and, once run() returned, what get_host gave.              *)
(***************************************************************************)
DialogForms ==
    [name : {" a "}, ip : {"h"}, username : {""},
     port : {"", "2222", " 80 ", "1", "65535", "0", "65536", "70000", "abc"},
     certificate : {""}, links : {<<>>}]

DialogInit ==
    /\ pc = "running"
    /\ hosts = <<>>
    /\ terminal_profiles = <<>>
    /\ file = NoFile
    /\ unsaved = FALSE
    /\ faults = 0
    /\ last = [op |-> "boot", read |-> "none", out |-> "none", msgs |-> <<>>,
               saved |-> FALSE, wasUnsaved |-> FALSE, lost |-> "no"]
    /\ written = NotWritten
    /\ cmd = IdleCmd
    /\ repo = IdleRepo

\* on_host_add_clicked / on_host_edit_clicked up to dialog.run()
HostDialogRun ==
    /\ pc = "running"
    /\ \E sel \in 0..Len(hosts) :
        /\ sel = 0 => Len(hosts) < MaxHosts
        /\ cmd' = [fn |-> "HostDialog", sel |-> sel, form |-> NoRecord,
                   response |-> "none", error |-> "None", result |-> NoRecord]
    /\ pc' = "dialog"
    /\ UNCHANGED <<hosts, terminal_profiles, file, unsaved, written, faults,
                   last, repo>>

\* one response of the dialog: on_response keeps it open after a validation
\* error; otherwise run() returns and the handler goes on to its end
HostDialogResponse ==
    /\ pc = "dialog"
    /\ \E form \in DialogForms, response \in {"OK", "CANCEL"} :
        LET error == IF response = "OK" THEN HostValidate(form) ELSE "None"
            host == IF response = "OK" THEN get_host(form) ELSE NoRecord
        IN IF error # "None"
           THEN /\ cmd' = [cmd EXCEPT !.form = form, !.response = response,
                                      !.error = error]
                /\ UNCHANGED <<pc, hosts, terminal_profiles, file, unsaved,
                               written, faults, last>>
           ELSE /\ cmd' = [cmd EXCEPT !.form = form, !.response = response,
                                      !.error = "None", !.result = host]
                /\ IF host # NoRecord
                   THEN IF cmd.sel = 0
                        THEN Mutate("host_add", Append(hosts, host),
                                    terminal_profiles)
                        ELSE Mutate("host_edit",
                                    [hosts EXCEPT ![Index(hosts, cmd.sel)] = host],
                                    terminal_profiles)
                   ELSE /\ pc' = "running"
                        /\ last' = Last("noop", "none", "none", <<>>, FALSE)
                        /\ UNCHANGED <<hosts, terminal_profiles, file, unsaved,
                                       written, faults>>
    /\ UNCHANGED repo

\* get_host on the entries as they stand, whatever validate says of them
GetHost ==
    /\ pc = "running"
    /\ \E form \in DialogForms :
        cmd' = [fn |-> "get_host", form |-> form, error |-> HostValidate(form),
                result |-> get_host(form)]
    /\ UNCHANGED <<appVars, repo>>

DialogNext == HostDialogRun \/ HostDialogResponse \/ GetHost

DialogSpec == DialogInit /\ [][DialogNext]_vars

(***************************************************************************)
(* The two tabs with their search entries: the window starts on a saved    *)
(* file, then handlers run on the row selected in the filtered view.  cmd  *)
(* holds the handler that ran last, the row it found selected (0: none),   *)
(* the dialog's answer, the lists it started from, the handler before it   *)
(* and the two search texts.                                               *)
(***************************************************************************)
MaxList == 3
MaxSteps == 2
MaxSearches == 1

UpperCase == <<"A", "B", "C", "H", "P">>
LowerCase == <<"a", "b", "c", "h", "p">>

\* str.lower()
RECURSIVE Lower(_)
Lower(s) ==
    IF s = "" THEN ""
    ELSE (IF \E k \in 1..Len(UpperCase) : UpperCase[k] = SubSeq(s, 1, 1)
          THEN LowerCase[CHOOSE k \in 1..Len(UpperCase) :
                            UpperCase[k] = SubSeq(s, 1, 1)]
          ELSE SubSeq(s, 1, 1)) \o Lower(Tail(s))

\* populate_host_list: the positions in self.hosts of the rows it shows
HostRows(filter_text) ==
    {i \in 1..Len(hosts) :
        \/ Contains(Lower(hosts[i].name), Lower(filter_text))
        \/ Contains(Lower(hosts[i].ip), Lower(filter_text))}

\* populate_profiles_list
ProfileRows(filter_text) ==
    {i \in 1..Len(terminal_profiles) :
        \/ Contains(Lower(terminal_profiles[i].name), Lower(filter_text))
        \/ Contains(Lower(terminal_profiles[i].git_username), Lower(filter_text))
        \/ Contains(Lower(terminal_profiles[i].git_email), Lower(filter_text))}

\* get_selected_host / get_selected_profile: a shown row, or none (0)
SelectedHost == {0} \cup HostRows(cmd.hosts_search)
SelectedProfile == {0} \cup ProfileRows(cmd.profiles_search)

SearchTexts == {"", "a"}

ListHostRecords ==
    { SSHHost("A", "h", "", 22, "", <<[name |-> "w", url |-> "http://w"]>>),
      SSHHost("b", "h", "u", 2222, "/k", <<>>) }

\* "links": 0 in the file: falsy, so populate_host_list shows the host
NoLinks == SSHHost("c", "h", "", 22, "", <<[num |-> 0]>>)

ListProfileRecords ==
    { TerminalProfile("A", "u", "e@x", "", ""),
      TerminalProfile("b", "v", "f@x", "/k", ProjectDir) }

\* the saved files the window may start on: one tab filled, records with
\* equal field values included
ListFiles ==
    {NoFile, ConfigFile(ConfigDocument(<<NoLinks>>, <<>>), OwnerOnly),
     \* legacy: a bare array of host objects
     ConfigFile([arr |-> <<[obj |-> [name |-> "b", ip |-> "h"]]>>], OwnerOnly)}
    \cup {ConfigFile(ConfigDocument(hs, <<>>), OwnerOnly) :
            hs \in SeqsUpTo(ListHostRecords, MaxList)}
    \cup {ConfigFile(ConfigDocument(<<>>, ps), OwnerOnly) :
            ps \in SeqsUpTo(ListProfileRecords, MaxList)}

ListInit ==
    /\ pc = "off"
    /\ hosts = <<>>
    /\ terminal_profiles = <<>>
    /\ file \in ListFiles
    /\ unsaved = FALSE
    /\ faults = 0
    /\ last = [op |-> "boot", read |-> "none", out |-> "none", msgs |-> <<>>,
               saved |-> FALSE, wasUnsaved |-> FALSE, lost |-> "no"]
    /\ written = NotWritten
    /\ cmd = [fn |-> "none", sel |-> 0, response |-> "none",
              hosts_search |-> "", profiles_search |-> "", step |-> 0,
              searches |-> 0, hosts |-> <<>>, terminal_profiles |-> <<>>,
              prev |-> [fn |-> "none", sel |-> 0]]
    /\ \E git_dir \in BOOLEAN :
        repo = [git_dir |-> git_dir, local |-> NoLocal, include |-> <<>>,
                git_installed |-> TRUE, call |-> NoCall]

Ran(fn, sel, response) ==
    cmd' = [fn |-> fn, sel |-> sel, response |-> response,
            hosts_search |-> cmd.hosts_search,
            profiles_search |-> cmd.profiles_search,
            step |-> cmd.step + 1, searches |-> cmd.searches,
            hosts |-> hosts, terminal_profiles |-> terminal_profiles,
            prev |-> [fn |-> cmd.fn, sel |-> cmd.sel]]

Ready == pc = "running" /\ cmd.step < MaxSteps

\* __init__: load_config, then both views are filled with empty filters
ListStart ==
    /\ cmd.fn = "none"
    /\ StartWindow
    /\ cmd' = [cmd EXCEPT !.fn = "__init__"]
    /\ UNCHANGED repo

on_hosts_search_changed ==
    /\ pc = "running"
    /\ cmd.searches < MaxSearches
    /\ \E text \in SearchTexts :
        /\ text # cmd.hosts_search
        /\ cmd' = [cmd EXCEPT !.fn = "on_hosts_search_changed", !.sel = 0,
                              !.response = "none", !.hosts_search = text,
                              !.searches = cmd.searches + 1,
                              !.hosts = hosts,
                              !.terminal_profiles = terminal_profiles,
                              !.prev = [fn |-> cmd.fn, sel |-> cmd.sel]]
    /\ NoChange
    /\ UNCHANGED repo

on_profiles_search_changed ==
    /\ pc = "running"
    /\ cmd.searches < MaxSearches
    /\ \E text \in SearchTexts :
        /\ text # cmd.profiles_search
        /\ cmd' = [cmd EXCEPT !.fn = "on_profiles_search_changed", !.sel = 0,
                              !.response = "none", !.profiles_search = text,
                              !.searches = cmd.searches + 1,
                              !.hosts = hosts,
                              !.terminal_profiles = terminal_profiles,
                              !.prev = [fn |-> cmd.fn, sel |-> cmd.sel]]
    /\ NoChange
    /\ UNCHANGED repo

HostAddClicked ==
    /\ Ready
    /\ \E run \in HostRuns :
        HostAdd(run) /\ Ran("on_host_add_clicked", 0, run.response)
    /\ UNCHANGED repo

HostEditClicked ==
    /\ Ready
    /\ \E sel \in SelectedHost, run \in HostRuns :
        /\ sel = 0 => run.response = "CANCEL"
        /\ HostEdit(sel, run)
        /\ Ran("on_host_edit_clicked", sel,
               IF sel = 0 THEN "none" ELSE run.response)
    /\ UNCHANGED repo

HostDuplicateClicked ==
    /\ Ready
    /\ \E sel \in SelectedHost :
        HostDuplicateAt(sel) /\ Ran("on_host_duplicate_clicked", sel, "none")
    /\ UNCHANGED repo

HostDeleteClicked ==
    /\ Ready
    /\ \E sel \in SelectedHost, response \in {"YES", "NO"} :
        /\ HostDelete(sel, response)
        /\ Ran("on_host_delete_clicked", sel,
               IF sel = 0 THEN "none" ELSE response)
    /\ UNCHANGED repo

HostMovedUp ==
    /\ Ready
    /\ \E sel \in SelectedHost : MoveHostUp(sel) /\ Ran("move_host_up", sel, "none")
    /\ UNCHANGED repo

HostMovedDown ==
    /\ Ready
    /\ \E sel \in SelectedHost :
        MoveHostDown(sel) /\ Ran("move_host_down", sel, "none")
    /\ UNCHANGED repo

\* on_host_connect_clicked: connect_to_host on the selected host, if any
on_host_connect_clicked ==
    /\ Ready
    /\ \E sel \in SelectedHost, spawn \in SpawnOutcomes :
        /\ IF sel = 0 THEN spawn = "ok" /\ NoChange ELSE Launched(spawn)
        /\ Ran("on_host_connect_clicked", sel,
               IF sel = 0 THEN "none" ELSE spawn)
    /\ UNCHANGED repo

ProfileAddClicked ==
    /\ Ready
    /\ \E run \in ProfileRuns :
        ProfileAdd(run) /\ Ran("on_profile_add_clicked", 0, run.response)
    /\ UNCHANGED repo

ProfileEditClicked ==
    /\ Ready
    /\ \E sel \in SelectedProfile, run \in ProfileRuns :
        /\ sel = 0 => run.response = "CANCEL"
        /\ ProfileEdit(sel, run)
        /\ Ran("on_profile_edit_clicked", sel,
               IF sel = 0 THEN "none" ELSE run.response)
    /\ UNCHANGED repo

ProfileDuplicateClicked ==
    /\ Ready
    /\ \E sel \in SelectedProfile :
        /\ ProfileDuplicateAt(sel)
        /\ Ran("on_profile_duplicate_clicked", sel, "none")
    /\ UNCHANGED repo

ProfileDeleteClicked ==
    /\ Ready
    /\ \E sel \in SelectedProfile, response \in {"YES", "NO"} :
        /\ ProfileDelete(sel, response)
        /\ Ran("on_profile_delete_clicked", sel,
               IF sel = 0 THEN "none" ELSE response)
    /\ UNCHANGED repo

ProfileMovedUp ==
    /\ Ready
    /\ \E sel \in SelectedProfile :
        MoveProfileUp(sel) /\ Ran("move_profile_up", sel, "none")
    /\ UNCHANGED repo

ProfileMovedDown ==
    /\ Ready
    /\ \E sel \in SelectedProfile :
        MoveProfileDown(sel) /\ Ran("move_profile_down", sel, "none")
    /\ UNCHANGED repo

\* on_profile_launch_clicked: launch_terminal_profile on the selected
\* profile, if any
on_profile_launch_clicked ==
    /\ Ready
    /\ \E sel \in SelectedProfile, spawn \in SpawnOutcomes,
          write \in {"ok", "oserror"}, fault \in BOOLEAN :
        IF sel = 0
        THEN /\ spawn = "ok" /\ write = "ok" /\ ~fault
             /\ NoChange
             /\ Ran("on_profile_launch_clicked", 0, "none")
             /\ UNCHANGED repo
        ELSE LET profile == terminal_profiles[sel]
                 r == [git_dir |-> repo.git_dir, local |-> repo.local,
                       include |-> repo.include,
                       git_installed |-> repo.git_installed]
             IN /\ AppliesIdentity(profile, r) \/ (write = "ok" /\ ~fault)
                /\ repo' = LaunchRepo(profile, write, fault)
                /\ Launched(spawn)
                /\ Ran("on_profile_launch_clicked", sel, spawn)

ListNext ==
    \/ ListStart
    \/ on_hosts_search_changed
    \/ on_profiles_search_changed
    \/ HostAddClicked
    \/ HostEditClicked
    \/ HostDuplicateClicked
    \/ HostDeleteClicked
    \/ HostMovedUp
    \/ HostMovedDown
    \/ on_host_connect_clicked
    \/ ProfileAddClicked
    \/ ProfileEditClicked
    \/ ProfileDuplicateClicked
    \/ ProfileDeleteClicked
    \/ ProfileMovedUp
    \/ ProfileMovedDown
    \/ on_profile_launch_clicked

ListSpec == ListInit /\ [][ListNext]_vars

(***************************************************************************)
(* Properties.                                                             *)
(***************************************************************************)

\* C1: a session that loads a file left by a save that completed has, in
\* memory, the records that save was given, in the same order and with
\* every field equal, and reports no error.
C1_RoundTrip ==
    (pc = "running" /\ last.op = "load" /\ last.read = "ok" /\ written.ok)
        => /\ hosts = written.hosts
           /\ terminal_profiles = written.profiles
           /\ last.msgs = <<>>

C1_Witness ==
    /\ pc = "running" /\ last.op = "load" /\ last.read = "ok"
    /\ ~last.saved /\ written.ok
    /\ Len(hosts) = 2 /\ hosts[1] # hosts[2]
    /\ terminal_profiles # <<>>

\* C2: a handler that changes a list and returns has called save_config;
\* after a mutation whose save succeeded the file decodes to exactly the
\* lists in memory.
C2_FileMatchesMemory ==
    [][/\ (pc = "running" /\ pc' = "running"
            /\ <<hosts, terminal_profiles>>' # <<hosts, terminal_profiles>>)
          => last'.saved
       /\ (pc' = "running" /\ last'.op \notin {"load", "noop", "close"}
            /\ last'.out = "ok")
          => /\ last'.saved
             /\ Decoded(file').ok
             /\ Decoded(file').hosts = hosts'
             /\ Decoded(file').profiles = terminal_profiles'
             /\ file'.content.obj.version = 2
      ]_vars

C2_Witness ==
    /\ pc = "running" /\ last.op = "move_host_up" /\ last.out = "ok"
    /\ Len(hosts) = 2 /\ hosts[1] # hosts[2]
    /\ terminal_profiles # <<>>
    /\ Decoded(file).hosts = hosts

\* C3: a crash inside save_config leaves the file as it was or holding the
\* complete new document.
C3_CrashNeverCorrupts ==
    [][last'.out \in SaveCrashes => (file' = file \/ Decoded(file').ok)]_vars

\* C4: when the file exists and cannot be read or decoded (not JSON, JSON
\* that is neither array nor object, an element that is no object, also after
\* hosts were decoded), load_config ends with both lists empty and exactly
\* one error report scheduled, and the window comes up.
C4_Undecodable(f) ==
    \/ "bad" \in DOMAIN f.content
    \/ ~IsList(f.content) /\ ~IsDict(f.content)
    \/ IsList(f.content) /\ \E i \in 1..Len(f.content.arr) : ~IsDict(f.content.arr[i])
    \/ IsDict(f.content) /\ ~DecodeVersioned(f.content).ok

C4_LoadFailureEmptiesLists ==
    [][(last'.op = "load" /\ file.exists
          /\ (last'.read = "oserror" \/ C4_Undecodable(file)))
        => /\ pc' = "running"
           /\ hosts' = <<>>
           /\ terminal_profiles' = <<>>
           /\ Len(last'.msgs) = 1
           /\ last'.msgs[1].via = "idle"
           /\ ~last'.saved
      ]_vars

C4_Witness ==
    /\ pc = "running" /\ last.op = "load" /\ last.read = "ok"
    /\ IsDict(file.content)
    /\ Items(file.content, "ssh_hosts").ok
    /\ DecodeHosts(Items(file.content, "ssh_hosts").items).ok
    /\ Items(file.content, "ssh_hosts").items # <<>>
    /\ ~Decoded(file).ok
    /\ hosts = <<>> /\ Len(last.msgs) = 1

\* C5: loading a legacy file (a top-level array of host objects), the save
\* succeeding: every element becomes a host, the profile list is empty, the
\* file is rewritten as {version: 2, ssh_hosts, terminal_profiles}, and
\* loading the rewritten file gives the same hosts and writes nothing.
C5_LegacyMigration ==
    [][(last'.op = "load" /\ last'.read = "ok" /\ file.exists
          /\ IsList(file.content)
          /\ (\A i \in 1..Len(file.content.arr) : IsDict(file.content.arr[i]))
          /\ last'.out \notin SaveFailures \cup SaveCrashes)
        => LET arr == file.content.arr
               again == load_config(file', "ok", "ok", OwnerOnly)
           IN /\ pc' = "running"
              /\ Len(hosts') = Len(arr)
              /\ \A i \in 1..Len(arr) :
                    /\ hosts'[i].name = Get(arr[i].obj, "name", "")
                    /\ hosts'[i].ip = Get(arr[i].obj, "ip", "")
              /\ terminal_profiles' = <<>>
              /\ last'.saved
              /\ IsDict(file'.content)
              /\ DOMAIN file'.content.obj
                    = {"version", "ssh_hosts", "terminal_profiles"}
              /\ file'.content.obj.version = 2
              /\ ~again.saved
              /\ again.file = file'
              /\ again.hosts = hosts'
              /\ again.profiles = <<>>
              /\ again.msgs = <<>>
      ]_vars

C5_Witness ==
    /\ pc = "running" /\ last.op = "load" /\ last.saved /\ last.out = "ok"
    /\ Len(hosts) = 1 /\ hosts[1].name = "a" /\ hosts[1].ip = "1.2.3.4"
    /\ IsDict(file.content)

\* C6: a save that fails shows one Save Error message and the handler
\* returns with the window up and the mutation still in memory; a later save
\* that succeeds writes the lists as they then are.
C6_SaveFailureKeepsMemory ==
    [][/\ (last'.saved /\ last'.out \in SaveFailures)
          => /\ pc' = "running"
             /\ last'.msgs = <<ErrorDialog("Save Error")>>
             /\ last'.op \in {"host_add", "host_duplicate"}
                   => /\ Len(hosts') = Len(hosts) + 1
                      /\ SubSeq(hosts', 1, Len(hosts)) = hosts
             /\ last'.op = "host_delete" => Len(hosts') = Len(hosts) - 1
             /\ last'.op \in {"profile_add", "profile_duplicate"}
                   => /\ Len(terminal_profiles') = Len(terminal_profiles) + 1
                      /\ SubSeq(terminal_profiles', 1, Len(terminal_profiles))
                            = terminal_profiles
             /\ last'.op = "profile_delete"
                   => Len(terminal_profiles') = Len(terminal_profiles) - 1
             /\ last'.op = "load"
                   => /\ Len(hosts') = Len(file.content.arr)
                      /\ \A i \in 1..Len(hosts') :
                            hosts'[i].ip = Get(file.content.arr[i].obj, "ip", "")
       /\ (unsaved /\ last'.saved /\ last'.out = "ok")
          => /\ pc' = "running"
             /\ Decoded(file').ok
             /\ Decoded(file').hosts = hosts'
             /\ Decoded(file').profiles = terminal_profiles'
      ]_vars

C6_Witness ==
    /\ pc = "running" /\ last.saved /\ last.out = "ok" /\ last.wasUnsaved
    /\ hosts # <<>>
    /\ Decoded(file).hosts = hosts

\* C7: in every state where save_config has written the file's content,
\* also when the save created the file and when os.chmod then failed, the
\* file's mode is owner read/write only.
C7_OwnerOnlyAfterSave ==
    (last.saved /\ last.out \in {"ok", "chmod_fail"}) => file.mode = OwnerOnly

\* C8: get_ssh_args is "ssh", then "-i" and the certificate when there is
\* one, then "-p" and the port in decimal when it is not 22, then
\* username@ip or ip alone; hosts that differ only in name or links get the
\* same arguments.
C8_SshArgs ==
    cmd.fn = "get_ssh_args" =>
        LET h == cmd.arg
            r == cmd.result
            n == Len(r)
            hasCert == h.certificate # ""
            hasPort == h.port # 22
        IN /\ n = 2 + (IF hasCert THEN 2 ELSE 0) + (IF hasPort THEN 2 ELSE 0)
           /\ r[1] = "ssh"
           /\ hasCert => (r[2] = "-i" /\ r[3] = h.certificate)
           /\ hasPort => /\ r[n - 2] = "-p"
                         /\ r[n - 1] = ToString(h.port)
                         /\ ParseInt(r[n - 1]) = [ok |-> TRUE, val |-> h.port]
           /\ r[n] = IF h.username # "" THEN h.username \o "@" \o h.ip
                     ELSE h.ip
           /\ \A g \in CmdHosts :
                (/\ g.ip = h.ip /\ g.username = h.username
                 /\ g.port = h.port /\ g.certificate = h.certificate)
                    => get_ssh_args(g) = r

C8_Witness ==
    /\ cmd.fn = "get_ssh_args"
    /\ cmd.arg.links # <<>>
    /\ cmd.result = <<"ssh", "-i", "/k", "-p", "2222", "u@h">>

\* C9: get_environment holds the author and committer names equal to
\* git_username, the author and committer emails equal to git_email,
\* GIT_SSH_COMMAND exactly when ssh_key_path is non-empty, and nothing else.
C9_Environment ==
    cmd.fn = "get_environment" =>
        LET p == cmd.arg
            e == cmd.result
        IN /\ DOMAIN e = {"GIT_AUTHOR_NAME", "GIT_COMMITTER_NAME",
                          "GIT_AUTHOR_EMAIL", "GIT_COMMITTER_EMAIL"}
                         \cup (IF p.ssh_key_path # "" THEN {"GIT_SSH_COMMAND"}
                               ELSE {})
           /\ e["GIT_AUTHOR_NAME"] = p.git_username
           /\ e["GIT_COMMITTER_NAME"] = p.git_username
           /\ e["GIT_AUTHOR_EMAIL"] = p.git_email
           /\ e["GIT_COMMITTER_EMAIL"] = p.git_email

C9_Witness ==
    /\ cmd.fn = "get_environment"
    /\ cmd.arg.ssh_key_path = ""
    /\ cmd.arg.working_dir # ""
    /\ Cardinality(DOMAIN cmd.result) = 4

\* The include.path entries that reference .gitconfig.local.
RefCount(include) ==
    Cardinality({i \in 1..Len(include) : Contains(include[i], ".gitconfig.local")})

\* C10, as stated: after every call that succeeds the repository has exactly
\* one include.path entry referencing .gitconfig.local, and .gitconfig.local
\* holds the profile's name and email.
C10_ExactlyOneInclude ==
    (repo.call.op = "apply" /\ repo.call.ok)
        => /\ RefCount(repo.include) = 1
           /\ repo.local = [exists |-> TRUE,
                            text |-> ConfigContent(repo.call.profile)]

\* C10, amended: a call that succeeds leaves .gitconfig.local holding the
\* profile's name and email and include.path (its last value) referencing
\* .gitconfig.local; it never adds a second such entry, so there is exactly
\* one when there was at most one before; when include.path already
\* references .gitconfig.local the set step is not invoked and the entries
\* are left alone; a repeated call with the same profile changes nothing.
C10_Idempotent ==
    [][(repo'.call.op = "apply" /\ repo'.call.ok)
        => /\ repo.git_dir
           /\ repo'.local = [exists |-> TRUE,
                             text |-> ConfigContent(repo'.call.profile)]
           /\ Contains(repo'.local.text, "name = " \o repo'.call.profile.git_username)
           /\ Contains(repo'.local.text, "email = " \o repo'.call.profile.git_email)
           /\ repo'.include # <<>>
           /\ Contains(repo'.include[Len(repo'.include)], ".gitconfig.local")
           /\ RefCount(repo.include) <= 1 => RefCount(repo'.include) = 1
           /\ RefCount(repo.include) > 1
                 => RefCount(repo'.include) = RefCount(repo.include)
           /\ (repo.include # <<>>
               /\ Contains(repo.include[Len(repo.include)], ".gitconfig.local"))
                 => /\ repo'.include = repo.include
                    /\ \A i \in 1..Len(repo'.call.steps) :
                          repo'.call.steps[i] # "set"
           /\ repo'.call.again
                 => /\ repo'.include = repo.include
                    /\ repo'.local = repo.local
                    /\ \A i \in 1..Len(repo'.call.steps) :
                          repo'.call.steps[i] # "set"
      ]_vars

C10_Witness ==
    /\ repo.call.op = "apply" /\ repo.call.ok /\ repo.call.again
    /\ repo.include = <<IncludeLocal>>
    /\ repo.call.steps = <<"write", "get">>

\* C11: when project_dir/.git does not exist the call returns the
\* not-a-git-repository failure, leaves .gitconfig.local as it was (absent
\* or with its old text) and runs neither git step.
C11_NotAGitRepository ==
    [][(repo'.call.op = "apply" /\ ~repo.git_dir)
        => /\ ~repo'.call.ok
           /\ repo'.call.message = "Not a git repository (no .git directory found)"
           /\ repo'.local = repo.local
           /\ repo'.include = repo.include
           /\ repo'.call.steps = <<>>
      ]_vars

C11_Witness ==
    /\ repo.call.op = "apply" /\ ~repo.git_dir /\ ~repo.call.ok
    /\ repo.call.write = "ok"
    /\ ~repo.local.exists
    /\ repo.git_installed

\* C12: on a git repository a non-zero exit of the read step counts as
\* "not yet set" and the set step runs; the call fails exactly when
\* .gitconfig.local could not be written, git is not installed, or the set
\* step ran and exited non-zero, and succeeds otherwise.
C12_FailureCauses ==
    [][(repo'.call.op = "apply" /\ repo.git_dir)
        => LET c == repo'.call
               got == GitConfigGet(repo.include)
               wrote == c.write = "ok"
               ranSet == \E i \in 1..Len(c.steps) : c.steps[i] = "set"
               setFailed == GitConfigSet(repo.include, IncludeLocal, c.fault).rc # 0
           IN /\ (wrote /\ repo.git_installed /\ got.rc # 0) => ranSet
              /\ c.ok <=> (wrote /\ repo.git_installed /\ ~(ranSet /\ setFailed))
              /\ ~wrote => c.message = "Failed to create .gitconfig.local"
              /\ (wrote /\ ~repo.git_installed)
                    => c.message = "git command not found"
              /\ (wrote /\ repo.git_installed /\ ranSet /\ setFailed)
                    => c.message = "Failed to configure git include path"
              /\ c.ok => Contains(c.message, "Identity set for")
      ]_vars

C12_Witness ==
    /\ repo.call.op = "apply" /\ repo.call.ok
    /\ repo.call.steps = <<"write", "get", "set">>
    /\ repo.include = <<IncludeLocal>>
    /\ ~repo.call.again

\* C13: connect_to_host and launch_terminal_profile call Popen once and
\* go on without waiting; FileNotFoundError shows Terminal Not Found, any
\* other exception a launch error, and in both cases the window stays up
\* with its lists and the config file untouched; the window closes exactly
\* when Popen returned.
C13_SpawnOnce ==
    [][(pc = "running" /\ cmd'.fn \in {"connect_to_host", "launch_terminal_profile"})
        => LET c == cmd'
               spawns == {i \in 1..Len(c.steps) : c.steps[i] = "spawn"}
           IN /\ Cardinality(spawns) = 1
              /\ \A i \in 1..Len(c.steps) :
                    c.steps[i] \in {"identity", "spawn", "close"}
              /\ c.spawn = "not_found"
                    => c.msgs = <<[via |-> "dialog", title |-> "Terminal Not Found"]>>
              /\ c.spawn = "error"
                    => /\ Len(c.msgs) = 1
                       /\ c.msgs[1].via = "dialog"
                       /\ c.msgs[1].title
                            = IF c.fn = "connect_to_host" THEN "Connection Error"
                              ELSE "Launch Error"
              /\ c.spawn = "ok" => c.msgs = <<>>
              /\ c.spawn # "ok"
                    => /\ pc' = "running"
                       /\ hosts' = hosts
                       /\ terminal_profiles' = terminal_profiles
                       /\ file' = file
              /\ pc' = "off" <=> c.spawn = "ok"
              /\ c.steps[Len(c.steps)] = "close" <=> c.spawn = "ok"
      ]_vars

C13_Witness ==
    /\ cmd.fn = "launch_terminal_profile" /\ cmd.spawn = "not_found"
    /\ pc = "running"
    /\ hosts = LaunchHosts /\ terminal_profiles = LaunchProfiles
    /\ Len(cmd.msgs) = 1

\* C14: a host connect spawns [gnome-terminal, "--"] followed by
\* get_ssh_args(host), a certificate path with a space still being one
\* element; a profile launch spawns [gnome-terminal] followed by
\* "--working-directory", working_dir exactly when working_dir is non-empty.
C14_ArgumentVector ==
    /\ cmd.fn = "connect_to_host"
        => LET a == cmd.argv
               h == cmd.arg
           IN /\ Len(a) = 2 + Len(get_ssh_args(h))
              /\ a[1] = "gnome-terminal"
              /\ a[2] = "--"
              /\ SubSeq(a, 3, Len(a)) = get_ssh_args(h)
              /\ h.certificate # "" => (a[4] = "-i" /\ a[5] = h.certificate)
              /\ a[Len(a)] = IF h.username # "" THEN h.username \o "@" \o h.ip
                             ELSE h.ip
    /\ cmd.fn = "launch_terminal_profile"
        => LET a == cmd.argv
               p == cmd.arg
           IN /\ a[1] = "gnome-terminal"
              /\ p.working_dir = "" => Len(a) = 1
              /\ p.working_dir # ""
                    => /\ Len(a) = 3
                       /\ a[2] = "--working-directory"
                       /\ a[3] = p.working_dir

C14_Witness ==
    /\ cmd.fn = "connect_to_host"
    /\ cmd.arg.certificate = "/my key"
    /\ cmd.argv = <<"gnome-terminal", "--", "ssh", "-i", "/my key",
                    "-p", "2222", "u@10.0.0.1">>

\* C15: the environment given to the terminal of a profile launch is the
\* process environment with every key of get_environment(profile) set to
\* the profile's value, every other key as the process has it, and
\* os.environ itself is left as it was.
C15_EnvironmentMerge ==
    [][cmd'.fn = "launch_terminal_profile"
        => LET e == cmd'.env
               base == cmd.environ
               over == get_environment(cmd'.arg)
           IN /\ DOMAIN e = DOMAIN base \cup DOMAIN over
              /\ \A k \in DOMAIN over : e[k] = over[k]
              /\ \A k \in DOMAIN base \ DOMAIN over : e[k] = base[k]
              /\ cmd'.environ = base
      ]_vars

C15_Witness ==
    /\ cmd.fn = "launch_terminal_profile"
    /\ "GIT_AUTHOR_NAME" \in DOMAIN cmd.environ
    /\ cmd.environ["GIT_AUTHOR_NAME"] = "old"
    /\ cmd.env["GIT_AUTHOR_NAME"] = "Ann Lee"
    /\ cmd.env["EDITOR"] = "vi"
    /\ cmd.env["GIT_SSH_COMMAND"] # cmd.environ["GIT_SSH_COMMAND"]

\* C16: a profile launch runs apply_persistent_identity exactly when
\* working_dir is non-empty and working_dir/.git exists, runs it before
\* Popen, and calls Popen whether the identity step was skipped, succeeded
\* or failed.
C16_IdentityBeforeSpawn ==
    [][(pc = "running" /\ cmd'.fn = "launch_terminal_profile")
        => LET c == cmd'
               applies == c.arg.working_dir # "" /\ repo.git_dir
               ran == \E i \in 1..Len(c.steps) : c.steps[i] = "identity"
           IN /\ ran <=> applies
              /\ applies => /\ c.steps[1] = "identity"
                            /\ c.steps[2] = "spawn"
                            /\ repo'.call.op = "apply"
                            /\ repo'.call.profile = c.arg
              /\ ~applies => /\ c.steps[1] = "spawn"
                             /\ repo'.local = repo.local
                             /\ repo'.include = repo.include
                             /\ repo'.call.op = "none"
              /\ \E i \in 1..Len(c.steps) : c.steps[i] = "spawn"
      ]_vars

C16_Witness ==
    /\ cmd.fn = "launch_terminal_profile"
    /\ repo.call.op = "apply" /\ ~repo.call.ok
    /\ cmd.steps = <<"identity", "spawn", "close">>

\* C17: a failure result of apply_persistent_identity during a profile
\* launch is shown to the user: some message of the launch is not one of
\* the two Popen messages.
C17_IdentityFailureReported ==
    (cmd.fn = "launch_terminal_profile" /\ repo.call.op = "apply"
        /\ ~repo.call.ok)
        => \E i \in 1..Len(cmd.msgs) :
              cmd.msgs[i].title \notin {"Terminal Not Found", "Launch Error"}

\* C18: every host record this program has written to the config file has
\* a non-empty name and a non-empty ip.
C18_PersistedNameAndIp ==
    written.ok
        => \A i \in 1..Len(written.hosts) :
              written.hosts[i].name # "" /\ written.hosts[i].ip # ""

\* C19: every host in the in-memory list has an integer port in 1..65535.
C19_PortInRange ==
    \A i \in 1..Len(hosts) : hosts[i].port \in 1..65535

\* C20: OK on a host dialog whose port text is non-empty and is not a number
\* in 1..65535 keeps the dialog open with a validation error and adds or
\* replaces no record; get_host gives port 22 for every port text that does
\* not parse or is out of range, the empty text included, and the number
\* itself otherwise.
C20_PortValidation ==
    [][/\ (pc = "dialog" /\ cmd'.fn = "HostDialog" /\ cmd'.response = "OK"
            /\ LET t == Strip(cmd'.form.port)
                   n == ParseInt(t)
               IN t # "" /\ (~n.ok \/ n.val < 1 \/ n.val > 65535))
          => /\ pc' = "dialog"
             /\ cmd'.error \in {"Port must be a valid number.",
                                "Port must be between 1 and 65535."}
             /\ hosts' = hosts
             /\ file' = file
             /\ last' = last
       /\ cmd'.fn = "get_host"
          => LET n == ParseInt(cmd'.form.port)
                 good == n.ok /\ n.val >= 1 /\ n.val <= 65535
             IN /\ cmd'.result # NoRecord
                /\ good => cmd'.result.port = n.val
                /\ ~good => cmd'.result.port = 22
                /\ cmd'.form.port = "" => cmd'.error = "None"
      ]_vars

C20_Witness ==
    /\ pc = "dialog" /\ cmd.fn = "HostDialog" /\ cmd.response = "OK"
    /\ cmd.form # NoRecord
    /\ cmd.form.port = "70000"
    /\ cmd.error = "Port must be between 1 and 65535."
    /\ Len(hosts) = 1

\* C21: every profile in the in-memory list has a non-empty name, a
\* non-empty git_username and a git_email that is non-empty and contains "@".
C21_ProfileFieldsValid ==
    \A i \in 1..Len(terminal_profiles) :
        /\ terminal_profiles[i].name # ""
        /\ terminal_profiles[i].git_username # ""
        /\ terminal_profiles[i].git_email # ""
        /\ Contains(terminal_profiles[i].git_email, "@")

\* The default of a record field that the file's object does not hold.
C22_Default(k) == IF k = "port" THEN 22 ELSE IF k = "links" THEN <<>> ELSE ""

\* Each of the two keys is absent or holds an array of objects.
C22_WellFormed(d) ==
    \A key \in {"ssh_hosts", "terminal_profiles"} :
        key \in DOMAIN d
            => /\ IsList(d[key])
               /\ \A i \in 1..Len(d[key].arr) : IsDict(d[key].arr[i])

\* C22: loading a JSON object takes the hosts from ssh_hosts and the
\* profiles from terminal_profiles, an absent key counting as an empty
\* array; each record has exactly its own fields, a field the object holds
\* with the object's value, any other with its default ("" for text, 22 for
\* port, the empty sequence for links); unknown keys are dropped; nothing is
\* reported and nothing is written.
C22_VersionedLoad ==
    [][(last'.op = "load" /\ last'.read = "ok" /\ file.exists
          /\ IsDict(file.content) /\ C22_WellFormed(file.content.obj))
        => LET d == file.content.obj
               hs == IF "ssh_hosts" \in DOMAIN d THEN d.ssh_hosts.arr ELSE <<>>
               ps == IF "terminal_profiles" \in DOMAIN d
                     THEN d.terminal_profiles.arr ELSE <<>>
               hostFields == {"name", "ip", "username", "port", "certificate",
                              "links"}
               profileFields == {"name", "git_username", "git_email",
                                 "ssh_key_path", "working_dir"}
           IN /\ pc' = "running"
              /\ last'.msgs = <<>>
              /\ ~last'.saved
              /\ file' = file
              /\ Len(hosts') = Len(hs)
              /\ \A i \in 1..Len(hs) :
                    /\ DOMAIN hosts'[i] = hostFields
                    /\ \A k \in hostFields :
                          hosts'[i][k] = IF k \in DOMAIN hs[i].obj
                                         THEN hs[i].obj[k] ELSE C22_Default(k)
              /\ Len(terminal_profiles') = Len(ps)
              /\ \A i \in 1..Len(ps) :
                    /\ DOMAIN terminal_profiles'[i] = profileFields
                    /\ \A k \in profileFields :
                          terminal_profiles'[i][k]
                            = IF k \in DOMAIN ps[i].obj
                              THEN ps[i].obj[k] ELSE C22_Default(k)
      ]_vars

C22_Witness ==
    /\ pc = "running" /\ last.op = "load" /\ last.read = "ok"
    /\ Len(hosts) = 1 /\ hosts[1].name = "c" /\ hosts[1].port = 22
    /\ hosts[1].links = <<>>
    /\ Len(terminal_profiles) = 1 /\ terminal_profiles[1].name = "q"
    /\ terminal_profiles[1].working_dir = ""
    /\ IsDict(file.content)
    /\ "ssh_hosts" \in DOMAIN file.content.obj
    /\ "comment" \in DOMAIN file.content.obj.ssh_hosts.arr[1].obj

\* The array a file keeps its hosts in, and the one it keeps its profiles in.
C23_HostArray(f) ==
    IF IsList(f.content) THEN f.content.arr
    ELSE IF IsDict(f.content) /\ "ssh_hosts" \in DOMAIN f.content.obj
            /\ IsList(f.content.obj.ssh_hosts)
    THEN f.content.obj.ssh_hosts.arr
    ELSE <<>>

C23_ProfileArray(f) ==
    IF IsDict(f.content) /\ "terminal_profiles" \in DOMAIN f.content.obj
       /\ IsList(f.content.obj.terminal_profiles)
    THEN f.content.obj.terminal_profiles.arr
    ELSE <<>>

\* The records the files found at startup hold.
C23_FileHosts ==
    UNION { {HostFromDict(C23_HostArray(f)[i]) :
                i \in {j \in 1..Len(C23_HostArray(f)) : IsDict(C23_HostArray(f)[j])}} :
            f \in InitFiles }

C23_FileProfiles ==
    UNION { {ProfileFromDict(C23_ProfileArray(f)[i]) :
                i \in {j \in 1..Len(C23_ProfileArray(f)) :
                          IsDict(C23_ProfileArray(f)[j])}} :
            f \in InitFiles }

\* C23: a load that fails on an existing file leaves the file as it is and
\* both lists empty; the first later save that succeeds replaces the file by
\* a document of the lists as they then are, which hold none of the records
\* the file held.
C23_FailedLoadThenOverwrite ==
    [][/\ (last'.op = "load" /\ last'.lost = "pending")
          => /\ file.exists
             /\ file' = file
             /\ hosts' = <<>>
             /\ terminal_profiles' = <<>>
       /\ last'.lost = "now"
          => /\ last.lost = "pending"
             /\ last'.op # "load"
             /\ Decoded(file').ok
             /\ Decoded(file').hosts = hosts'
             /\ Decoded(file').profiles = terminal_profiles'
             /\ \A i \in 1..Len(Decoded(file').hosts) :
                   Decoded(file').hosts[i] \notin C23_FileHosts
             /\ \A i \in 1..Len(Decoded(file').profiles) :
                   Decoded(file').profiles[i] \notin C23_FileProfiles
      ]_vars

C23_Witness ==
    /\ pc = "running" /\ last.lost = "now" /\ last.op = "host_add"
    /\ Len(hosts) = 1
    /\ Decoded(file).ok
    /\ Decoded(file).hosts = hosts

C24_Swapped(before, after, i, j) ==
    /\ Len(after) = Len(before)
    /\ after[i] = before[j]
    /\ after[j] = before[i]
    /\ \A k \in 1..Len(before) : k \notin {i, j} => after[k] = before[k]

C24_Move(fn, d, before, after) ==
    cmd'.fn = fn =>
        IF cmd'.sel = 0 \/ cmd'.sel + d \notin 1..Len(before)
        THEN /\ after = before
             /\ file' = file
             /\ last'.op = "noop" /\ ~last'.saved
        ELSE /\ last'.saved
             /\ pc' = "running" =>
                    C24_Swapped(before, after, cmd'.sel, cmd'.sel + d)

C24_UpThenDown(up, down, before, after) ==
    /\ pc = "running" /\ cmd.fn = up /\ cmd.sel > 1
    /\ pc' = "running" /\ cmd'.fn = down /\ cmd'.sel = cmd.sel - 1
    => after = before

\* C24: a move swaps the selected record with the record next to it in the
\* full list, whatever the search text shows, and leaves every other
\* position as it was; on the first record (up), on the last (down) and
\* with no selection the list and the file are unchanged and nothing is
\* saved; moving a record up and then down gives back the original order.
\* Both tabs.
C24_MoveSwapsNeighbours ==
    [][/\ C24_Move("move_host_up", -1, hosts, hosts')
       /\ C24_Move("move_host_down", 1, hosts, hosts')
       /\ C24_Move("move_profile_up", -1, terminal_profiles, terminal_profiles')
       /\ C24_Move("move_profile_down", 1, terminal_profiles, terminal_profiles')
       /\ cmd'.fn \in {"move_host_up", "move_host_down"} =>
              terminal_profiles' = terminal_profiles \/ pc' = "off"
       /\ cmd'.fn \in {"move_profile_up", "move_profile_down"} =>
              hosts' = hosts \/ pc' = "off"
       /\ C24_UpThenDown("move_host_up", "move_host_down", cmd.hosts, hosts')
       /\ C24_UpThenDown("move_profile_up", "move_profile_down",
                         cmd.terminal_profiles, terminal_profiles')]_vars

\* a host shown under the search text "a" was moved up past a hidden
\* neighbour and then down again, both saves succeeding
C24_Witness ==
    /\ pc = "running"
    /\ cmd.fn = "move_host_down" /\ cmd.sel = 1
    /\ cmd.prev.fn = "move_host_up" /\ cmd.prev.sel = 2
    /\ cmd.hosts_search = "a"
    /\ Len(hosts) = 3
    /\ hosts[2].name = "A" /\ hosts[1].name = "b" /\ hosts[3].name = "b"
    /\ cmd.hosts[1].name = "A"
    /\ last.out = "ok"
    /\ Decoded(file).ok /\ Decoded(file).hosts = hosts

C25_Removed(before, after, i) ==
    /\ Len(after) = Len(before) - 1
    /\ \A k \in 1..Len(after) : after[k] = before[IF k < i THEN k ELSE k + 1]

C25_Replaced(before, after, i, records) ==
    /\ Len(after) = Len(before)
    /\ \A k \in 1..Len(before) : k # i => after[k] = before[k]
    /\ after[i] \in records

C25_Selected(fn, response) ==
    cmd'.fn = fn /\ cmd'.sel # 0 /\ cmd'.response = response

C25_HostCopy(host) ==
    [name |-> host.name \o " (copy)", ip |-> host.ip,
     username |-> host.username, port |-> host.port,
     certificate |-> host.certificate, links |-> host.links]

C25_ProfileCopy(profile) ==
    [profile EXCEPT !.name = profile.name \o " (copy)"]

\* C25: on either list, a confirmed delete removes the selected record and
\* no other (also when a record with the same field values exists), keeps
\* the order of the rest and shortens the list by one; an accepted edit
\* replaces the record at the selected index and keeps the length and all
\* other positions; duplicate appends one record at the end, named after
\* the original with " (copy)" appended and equal in the other fields, and
\* leaves the original as it was.  Each of them saves.
C25_DeleteEditDuplicate ==
    [][/\ C25_Selected("on_host_delete_clicked", "YES") =>
            /\ last'.saved
            /\ pc' = "running" =>
                /\ C25_Removed(hosts, hosts', cmd'.sel)
                /\ terminal_profiles' = terminal_profiles
       /\ C25_Selected("on_profile_delete_clicked", "YES") =>
            /\ last'.saved
            /\ pc' = "running" =>
                /\ C25_Removed(terminal_profiles, terminal_profiles', cmd'.sel)
                /\ hosts' = hosts
       /\ C25_Selected("on_host_edit_clicked", "OK") =>
            /\ last'.saved
            /\ pc' = "running" =>
                /\ C25_Replaced(hosts, hosts', cmd'.sel,
                                {get_host(run.form) :
                                    run \in {r \in HostRuns : r.response = "OK"}})
                /\ terminal_profiles' = terminal_profiles
       /\ C25_Selected("on_profile_edit_clicked", "OK") =>
            /\ last'.saved
            /\ pc' = "running" =>
                /\ C25_Replaced(terminal_profiles, terminal_profiles', cmd'.sel,
                                {get_profile(run.form) :
                                    run \in {r \in ProfileRuns : r.response = "OK"}})
                /\ hosts' = hosts
       /\ C25_Selected("on_host_duplicate_clicked", "none") =>
            /\ last'.saved
            /\ pc' = "running" =>
                /\ hosts' = Append(hosts, C25_HostCopy(hosts[cmd'.sel]))
                /\ terminal_profiles' = terminal_profiles
       /\ C25_Selected("on_profile_duplicate_clicked", "none") =>
            /\ last'.saved
            /\ pc' = "running" =>
                /\ terminal_profiles' =
                       Append(terminal_profiles,
                              C25_ProfileCopy(terminal_profiles[cmd'.sel]))
                /\ hosts' = hosts]_vars

\* the same with the duplicate of a host whose links value is no list set
\* aside
C25_ExceptUniterableLinks ==
    [][(cmd'.fn = "on_host_duplicate_clicked" /\ cmd'.sel # 0
            => Iterable(hosts[cmd'.sel].links))
        => (/\ C25_Selected("on_host_delete_clicked", "YES") /\ pc' = "running" => C25_Removed(hosts, hosts', cmd'.sel)
            /\ C25_Selected("on_profile_delete_clicked", "YES") /\ pc' = "running" =>
                     C25_Removed(terminal_profiles, terminal_profiles', cmd'.sel)
            /\ C25_Selected("on_host_edit_clicked", "OK") /\ pc' = "running" =>
                     C25_Replaced(hosts, hosts', cmd'.sel,
                                  {get_host(run.form) :
                                      run \in {r \in HostRuns : r.response = "OK"}})
            /\ C25_Selected("on_profile_edit_clicked", "OK") /\ pc' = "running" =>
                     C25_Replaced(terminal_profiles, terminal_profiles', cmd'.sel,
                                  {get_profile(run.form) :
                                      run \in {r \in ProfileRuns : r.response = "OK"}})
            /\ C25_Selected("on_host_duplicate_clicked", "none") =>
                 /\ last'.saved
                 /\ pc' = "running" =>
                        hosts' = Append(hosts, C25_HostCopy(hosts[cmd'.sel]))
            /\ C25_Selected("on_profile_duplicate_clicked", "none") =>
                 /\ last'.saved
                 /\ pc' = "running" =>
                        terminal_profiles' =
                            Append(terminal_profiles,
                                   C25_ProfileCopy(terminal_profiles[cmd'.sel])))]_vars

C26_Hosts == {"on_host_edit_clicked", "on_host_duplicate_clicked",
              "on_host_delete_clicked", "on_host_connect_clicked",
              "move_host_up", "move_host_down"}

C26_Profiles == {"on_profile_edit_clicked", "on_profile_duplicate_clicked",
                 "on_profile_delete_clicked", "on_profile_launch_clicked",
                 "move_profile_up", "move_profile_down"}

\* the step was a handler that did not complete a mutation
C26_NotCompleted ==
    \/ /\ cmd'.fn \in {"on_host_add_clicked", "on_host_edit_clicked",
                       "on_profile_add_clicked", "on_profile_edit_clicked"}
       /\ cmd'.response = "CANCEL"
    \/ /\ cmd'.fn \in {"on_host_delete_clicked", "on_profile_delete_clicked"}
       /\ cmd'.response = "NO"
    \/ cmd'.fn \in C26_Hosts \cup C26_Profiles /\ cmd'.sel = 0
    \/ cmd'.hosts_search # cmd.hosts_search
    \/ cmd'.profiles_search # cmd.profiles_search

\* C26: cancelling an add or edit dialog, answering No to a delete, edit /
\* duplicate / delete / connect / launch / move with nothing selected and a
\* change of a search text leave both lists and the config file as they
\* were and save nothing; so does starting on a versioned-object file or
\* without a config file, and without a file the lists are empty, no error
\* is reported and no file is created.
C26_NoMutationNoSave ==
    [][/\ C26_NotCompleted =>
            /\ hosts' = hosts
            /\ terminal_profiles' = terminal_profiles
            /\ file' = file
            /\ ~last'.saved /\ last'.out = "none"
            /\ pc' = "running"
       /\ cmd'.fn = "__init__" /\ (~file.exists \/ IsDict(file.content)) =>
            /\ file' = file
            /\ ~last'.saved /\ last'.out = "none"
            /\ ~file.exists =>
                /\ hosts' = <<>> /\ terminal_profiles' = <<>>
                /\ last'.msgs = <<>>
                /\ ~file'.exists]_vars

\* with the search text "a" hiding one of three hosts, No was answered to
\* the delete question for the second host
C26_Witness ==
    /\ pc = "running"
    /\ cmd.fn = "on_host_delete_clicked" /\ cmd.sel = 2 /\ cmd.response = "NO"
    /\ cmd.prev.fn = "on_hosts_search_changed" /\ cmd.hosts_search = "a"
    /\ Len(hosts) = 3 /\ hosts = cmd.hosts
    /\ ~last.saved
    /\ Decoded(file).ok /\ Decoded(file).hosts = hosts

C27_GitStepFailures == {"git command not found",
                        "Failed to configure git include path"}

C27_Local(profile) == [exists |-> TRUE, text |-> ConfigContent(profile)]

\* C27: apply_persistent_identity writes .gitconfig.local before it runs
\* git, so when it fails in a git step (git not found, the set step exits
\* non-zero) the file holds the profile's name and email and include.path is
\* as it was; in a launch, what the identity step did to the repository is
\* still there when the terminal then fails to start.
C27_FileReplacedBeforeGit ==
    [][cmd'.fn = "launch_terminal_profile" /\ repo'.call.op = "apply" =>
        /\ \A i \in 1..Len(repo'.call.steps) :
              repo'.call.steps[i] \in {"get", "set"} =>
                  i > 1 /\ repo'.call.steps[1] = "write"
        /\ ~repo'.call.ok /\ repo'.call.message \in C27_GitStepFailures =>
              /\ repo'.local = C27_Local(cmd'.arg)
              /\ repo'.include = repo.include
        /\ repo'.call.ok =>
              /\ repo'.local = C27_Local(cmd'.arg)
              /\ AlreadyIncluded(GitConfigGet(repo'.include).stdout)
        /\ cmd'.spawn # "ok" =>
              /\ pc' = "running"
              /\ repo'.call.write = "ok" => repo'.local = C27_Local(cmd'.arg)]_vars

\* a launch whose set step failed and whose terminal did not start: the
\* file is the profile's, include.path still names the other file
C27_Witness ==
    /\ pc = "running"
    /\ cmd.fn = "launch_terminal_profile" /\ cmd.spawn = "error"
    /\ repo.call.op = "apply" /\ ~repo.call.ok
    /\ repo.call.message = "Failed to configure git include path"
    /\ repo.call.steps = <<"write", "get", "set">>
    /\ repo.local = C27_Local(cmd.arg)
    /\ repo.include = <<IncludeOther>>

====
